---- MODULE Spec2Model ----
(***************************************************************************)
(* State-machine model of the aggregation-and-refresh pipeline of          *)
(* AI_News_Reporter: the durable TTL cache (AdvancedCache), the API key    *)
(* pool (APIKeyPool), the scheduler (Scheduler), the multi-source          *)
(* aggregator (fetchAllSources / deduplicateAndFilter) and the             *)
(* classification orchestrator (batchAnalyze / analyzeNewsItem).           *)
(*                                                                         *)
(* Each component has its own specification (SpecCache, SpecPool,          *)
(* SpecSched, SpecAgg, SpecClassify) over the shared variables; the        *)
(* variables of the other components stay at their initial values.         *)
(* Time is the value of Date.now() in milliseconds.                        *)
(***************************************************************************)
EXTENDS Integers, Sequences, FiniteSets, TLC

VARIABLES
    now,            \* Date.now()
    steps,          \* operations performed so far (bounds the exploration)
    \* ---- AdvancedCache (one instance) ----
    memoryCache,    \* Map<string, CacheEntry>: a function on the keys present
    cacheFile,      \* the durable copy written by save(): same shape
    loaded,         \* AdvancedCache.loaded
    cacheRet,       \* what the last cache operation returned
    \* ---- APIKeyPool ----
    keys,           \* APIKeyPool.keys: the configured keys, in order
    keyStatus,      \* APIKeyPool.keyStatus: key -> APIKeyStatus
    currentIndex,   \* APIKeyPool.currentIndex (0-based)
    poolRet,        \* what the last pool operation returned
    \* ---- Scheduler ----
    schedState,     \* Scheduler.state (in memory)
    stateFile,      \* the persisted scheduler-state.json
    initialized,    \* Scheduler.initialized
    schedRet,       \* what the last scheduler operation returned
    \* ---- Aggregator (one pass of fetchAllSources) ----
    aggPhase,       \* "idle", "fetching" (awaiting Promise.allSettled), "done"
    cutoffDate,     \* fetchAllSources: cutoffDate
    results,        \* the promises of the five fetchers
    aggRet,         \* what the last pass returned: items and sourceStats
    \* ---- Classification (one pass of batchAnalyze at a time) ----
    batch,          \* the locals of batchAnalyze and where the pass stands
    calls,          \* the requests of analyzeNewsItem not yet settled
    races,          \* the Promise.race of each item of the current chunk
    batchRet,       \* what the last pass of batchAnalyze returned
    \* ---- The refresh entry point ----
    route,          \* the locals of GET and where the request stands
    routeRet,       \* the response of the last request
    overlap,        \* the locals of a request that arrives during another
    overlapRet      \* the response of that request

cacheVars == <<memoryCache, cacheFile, loaded, cacheRet>>

poolVars == <<keys, keyStatus, currentIndex, poolRet>>

schedVars == <<schedState, stateFile, initialized, schedRet>>

aggVars == <<aggPhase, cutoffDate, results, aggRet>>

classifyVars == <<batch, calls, races, batchRet>>

routeVars == <<route, routeRet, overlap, overlapRet>>

vars == <<now, steps, cacheVars, poolVars, schedVars, aggVars, classifyVars,
          routeVars>>

\* What an operation of one component leaves alone in the others.
notCache == <<poolVars, schedVars, aggVars, classifyVars, routeVars>>

notPool == <<cacheVars, schedVars, aggVars, classifyVars, routeVars>>

notSched == <<cacheVars, poolVars, aggVars, classifyVars, routeVars>>

notAgg == <<cacheVars, poolVars, schedVars, classifyVars, routeVars>>

(***************************************************************************)
(* The clock.  Date.now() of a running process is far from the epoch: the  *)
(* model starts two hours after it.  A clock step is either one            *)
(* millisecond or one coarse step of the component; at most MaxFineTicks   *)
(* single milliseconds are taken after each coarse instant, so that the    *)
(* instants exactly at, just before and just after every threshold are     *)
(* reached while the set of instants stays finite.                         *)
(***************************************************************************)
StartTime == 2 * 60 * 60 * 1000

MaxFineTicks == 1

FineTickAllowed(step) == ((now - StartTime) % step) < MaxFineTicks

(***************************************************************************)
(*                        AdvancedCache<T>                                 *)
(***************************************************************************)
CACHE_TTL_news == 15 * 60 * 1000

CacheKeys == {"latest", "k2"}

CacheData == {"v1", "v2"}

Null == "null"

\* A CacheEntry {data, timestamp, expiresAt}; NoEntry stands for undefined.
NoEntry == [data |-> Null, timestamp |-> -1, expiresAt |-> -1]

EmptyMap == [k \in {} |-> NoEntry]

MapGet(m, k) == IF k \in DOMAIN m THEN m[k] ELSE NoEntry

MapSet(m, k, e) == [x \in (DOMAIN m) \cup {k} |-> IF x = k THEN e ELSE m[x]]

MapDelete(m, k) == [x \in (DOMAIN m) \ {k} |-> m[x]]

\* load(): the first call reads the file and keeps the entries that are
\* not yet expired (expiresAt > now); later calls return at once.
LoadedMap(mem, file, isLoaded, t) ==
    IF isLoaded THEN mem
    ELSE LET valid == {k \in DOMAIN file : file[k].expiresAt > t}
         IN  [k \in (DOMAIN mem) \cup valid |->
                 IF k \in valid THEN file[k] ELSE mem[k]]

\* The expiry test of get() and has(): the entry is evicted when it holds.
GetExpired(entry, t) == entry.expiresAt < t

\* get(key)
CacheGet(key) ==
    LET m     == LoadedMap(memoryCache, cacheFile, loaded, now)
        entry == MapGet(m, key)
    IN  /\ loaded' = TRUE
        /\ IF entry = NoEntry
           THEN /\ memoryCache' = m
                /\ cacheRet' = [op |-> "get", key |-> key, value |-> Null,
                                entry |-> NoEntry, at |-> now]
           ELSE IF GetExpired(entry, now)
           THEN /\ memoryCache' = MapDelete(m, key)
                /\ cacheRet' = [op |-> "get", key |-> key, value |-> Null,
                                entry |-> entry, at |-> now]
           ELSE /\ memoryCache' = m
                /\ cacheRet' = [op |-> "get", key |-> key, value |-> entry.data,
                                entry |-> entry, at |-> now]
        /\ UNCHANGED <<now, steps, cacheFile, notCache>>

\* customTTL when set() is called without one (undefined)
NoTTL == -1

\* The TTL used by set(): customTTL || this.ttl (an absent customTTL and a
\* customTTL of 0 are both falsy).
EffectiveTTL(customTTL) ==
    IF customTTL # NoTTL /\ customTTL # 0 THEN customTTL ELSE CACHE_TTL_news

\* set(key, data, customTTL): stores the entry and saves the map.
CacheSet(key, data, customTTL) ==
    LET m     == LoadedMap(memoryCache, cacheFile, loaded, now)
        entry == [data |-> data, timestamp |-> now,
                  expiresAt |-> now + EffectiveTTL(customTTL)]
    IN  /\ loaded' = TRUE
        /\ memoryCache' = MapSet(m, key, entry)
        /\ cacheFile' = memoryCache'
        /\ cacheRet' = [op |-> "set", key |-> key, value |-> Null,
                        entry |-> entry, at |-> now]
        /\ UNCHANGED <<now, steps, notCache>>

\* delete(key): removes the entry and saves the map.
CacheDelete(key) ==
    LET m == LoadedMap(memoryCache, cacheFile, loaded, now)
    IN  /\ loaded' = TRUE
        /\ memoryCache' = MapDelete(m, key)
        /\ cacheFile' = memoryCache'
        /\ cacheRet' = [op |-> "delete", key |-> key, value |-> Null,
                        entry |-> NoEntry, at |-> now]
        /\ UNCHANGED <<now, steps, notCache>>

\* clear(): empties the map, without load(), and saves it.
CacheClear ==
    /\ memoryCache' = EmptyMap
    /\ cacheFile' = EmptyMap
    /\ cacheRet' = [op |-> "clear", key |-> Null, value |-> Null,
                    entry |-> NoEntry, at |-> now]
    /\ UNCHANGED <<now, steps, loaded, notCache>>

\* the loop of cleanup(): the entries with expiresAt < now are deleted
cleanup(m, t) ==
    LET kept == {k \in DOMAIN m : ~(m[k].expiresAt < t)}
    IN  [k \in kept |-> m[k]]

\* cleanup(): removes the entries with expiresAt < now and saves the map if
\* any was removed.
CacheCleanup ==
    LET m    == LoadedMap(memoryCache, cacheFile, loaded, now)
        kept == DOMAIN cleanup(m, now)
    IN  /\ loaded' = TRUE
        /\ memoryCache' = cleanup(m, now)
        /\ cacheFile' = IF kept # DOMAIN m THEN memoryCache' ELSE cacheFile
        /\ cacheRet' = [op |-> "cleanup", key |-> Null, value |-> Null,
                        entry |-> NoEntry, at |-> now]
        /\ UNCHANGED <<now, steps, notCache>>

\* the loop of getAll(): the entries with expiresAt > now
getAll(m, t) ==
    LET valid == {k \in DOMAIN m : m[k].expiresAt > t}
    IN  [k \in valid |-> m[k].data]

\* getAll(): load(), then the valid entries; none is deleted
CacheGetAll ==
    LET m == LoadedMap(memoryCache, cacheFile, loaded, now)
    IN  /\ loaded' = TRUE
        /\ memoryCache' = m
        /\ cacheRet' = [op |-> "getAll", key |-> Null, value |-> Null,
                        entry |-> NoEntry, at |-> now,
                        valid |-> DOMAIN getAll(m, now)]
        /\ UNCHANGED <<now, steps, cacheFile, notCache>>

\* the counts of getStats(): an entry is valid when expiresAt > now and
\* expired otherwise
getStats(m, t) ==
    LET valid == {k \in DOMAIN m : m[k].expiresAt > t}
    IN  [totalEntries |-> Cardinality(DOMAIN m),
         validEntries |-> Cardinality(valid),
         expiredEntries |-> Cardinality((DOMAIN m) \ valid)]

\* getStats(): reads the memory map as it is, without load()
CacheGetStats ==
    /\ cacheRet' = [op |-> "getStats", key |-> Null, value |-> Null,
                    entry |-> NoEntry, at |-> now,
                    stats |-> getStats(memoryCache, now)]
    /\ UNCHANGED <<now, steps, memoryCache, cacheFile, loaded, notCache>>

\* The process restarts: the memory map is gone, the file stays.
CacheRestart ==
    /\ loaded
    /\ memoryCache' = EmptyMap
    /\ loaded' = FALSE
    /\ cacheRet' = [op |-> "restart", key |-> Null, value |-> Null,
                    entry |-> NoEntry, at |-> now]
    /\ UNCHANGED <<now, steps, cacheFile, notCache>>

CustomTTLs == {NoTTL, 0, 1, 2}

MaxCacheCoarse == 2

TickCache ==
    /\ \E d \in {1, CACHE_TTL_news} :
          /\ d = 1 => FineTickAllowed(CACHE_TTL_news)
          /\ now + d <= StartTime + MaxCacheCoarse * CACHE_TTL_news + MaxFineTicks
          /\ now' = now + d
    /\ UNCHANGED <<steps, cacheVars, notCache>>

InitCacheVars ==
    /\ memoryCache = EmptyMap
    /\ cacheFile = EmptyMap
    /\ loaded = FALSE
    /\ cacheRet = [op |-> "none", key |-> Null, value |-> Null,
                   entry |-> NoEntry, at |-> 0]

(***************************************************************************)
(*                            APIKeyPool                                   *)
(***************************************************************************)
COOLDOWN_DURATION == 60000

MAX_ERRORS_BEFORE_COOLDOWN == 3

\* COOLDOWN_MULTIPLIER is 1.5 = 3/2; the exponent is capped at this value.
COOLDOWN_EXPONENT_CAP == 5

RATE_LIMIT_STATUS == 429

\* The keys the environment can configure (pairwise distinct values).
KeyNames == <<"keyA", "keyB", "keyC", "keyD", "keyE", "keyF", "keyG", "keyH",
             "keyI", "keyJ">>

MaxKeys == 2

MaxPoolSteps == 4

NewKeyStatus == [isHealthy |-> TRUE, requestCount |-> 0, lastUsed |-> 0,
                 cooldownUntil |-> 0, errorCount |-> 0]

RECURSIVE Pow(_, _)
Pow(b, e) == IF e = 0 THEN 1 ELSE b * Pow(b, e - 1)

Min(a, b) == IF a < b THEN a ELSE b

Max(a, b) == IF a > b THEN a ELSE b

\* Mutant of RateLimitCooldown: the exponent is not capped.
RateLimitCooldown_Uncapped(errorCount) ==
    (COOLDOWN_DURATION * Pow(3, errorCount)) \div Pow(2, errorCount)

\* COOLDOWN_DURATION * Math.pow(1.5, Math.min(errorCount, 5)): an integer
\* for every exponent up to 5 (60000 = 2^5 * 1875).
RateLimitCooldown(errorCount) ==
    LET e == Min(errorCount, COOLDOWN_EXPONENT_CAP)
    IN  (COOLDOWN_DURATION * Pow(3, e)) \div Pow(2, e)

\* Mutant of getLeastCooldownKey: the comparison reversed, so that the key
\* with the longest remaining cooldown is chosen.
getLeastCooldownKey_Reversed(ks, st) ==
    IF Len(ks) = 0 THEN Null
    ELSE ks[CHOOSE i \in 1..Len(ks) :
                \A j \in 1..Len(ks) :
                    \/ st[ks[i]].cooldownUntil > st[ks[j]].cooldownUntil
                    \/ /\ st[ks[i]].cooldownUntil = st[ks[j]].cooldownUntil
                       /\ i <= j]

\* getLeastCooldownKey(): the first key, in insertion order, with the
\* smallest cooldownUntil (strict <, starting from Infinity); null when the
\* pool is empty.
getLeastCooldownKey(ks, st) ==
    IF Len(ks) = 0 THEN Null
    ELSE ks[CHOOSE i \in 1..Len(ks) :
                \A j \in 1..Len(ks) :
                    \/ st[ks[i]].cooldownUntil < st[ks[j]].cooldownUntil
                    \/ /\ st[ks[i]].cooldownUntil = st[ks[j]].cooldownUntil
                       /\ i <= j]

\* The while loop of getNextKey(): at most 2 * keys.length attempts from
\* currentIndex; a key in cooldown is skipped; an unhealthy key with
\* MAX_ERRORS_BEFORE_COOLDOWN errors whose cooldown is over is reset and
\* skipped once; the first other key is taken and its usage is counted.
RECURSIVE ScanKeys(_, _, _, _, _)
ScanKeys(ks, st, idx, attempts, t) ==
    IF attempts >= 2 * Len(ks)
    THEN [found |-> FALSE, key |-> Null, status |-> st, index |-> idx]
    ELSE LET key  == ks[idx + 1]
             s    == st[key]
             nidx == (idx + 1) % Len(ks)
         IN  IF s.cooldownUntil > t
             THEN ScanKeys(ks, st, nidx, attempts + 1, t)
             ELSE IF ~s.isHealthy /\ s.errorCount >= MAX_ERRORS_BEFORE_COOLDOWN
             THEN ScanKeys(ks,
                           IF s.cooldownUntil <= t
                           THEN [st EXCEPT ![key].isHealthy = TRUE,
                                           ![key].errorCount = 0]
                           ELSE st,
                           nidx, attempts + 1, t)
             ELSE [found |-> TRUE, key |-> key,
                   status |-> [st EXCEPT ![key].requestCount = @ + 1,
                                         ![key].lastUsed = t],
                   index |-> nidx]

\* Mutant of getNextKey: plain round-robin, the key at currentIndex is
\* taken whether or not it is in cooldown.
getNextKey_PlainRoundRobin(ks, st, idx, t) ==
    IF Len(ks) = 0
    THEN [key |-> Null, status |-> st, index |-> idx, fallback |-> FALSE]
    ELSE [key |-> ks[idx + 1],
          status |-> [st EXCEPT ![ks[idx + 1]].requestCount = @ + 1,
                                ![ks[idx + 1]].lastUsed = t],
          index |-> (idx + 1) % Len(ks), fallback |-> FALSE]

\* getNextKey(): null for an empty pool, else the key the loop finds, else
\* the least-cooldown key.
getNextKey(ks, st, idx, t) ==
    IF Len(ks) = 0
    THEN [key |-> Null, status |-> st, index |-> idx, fallback |-> FALSE]
    ELSE LET r == ScanKeys(ks, st, idx, 0, t)
         IN  IF r.found
             THEN [key |-> r.key, status |-> r.status, index |-> r.index,
                   fallback |-> FALSE]
             ELSE [key |-> getLeastCooldownKey(ks, r.status),
                   status |-> r.status, index |-> r.index, fallback |-> TRUE]

\* Every pool operation counts against the exploration budget; a pool of
\* at most one key is explored MaxSoloSteps operations further, so that its
\* error count passes the cap of the cooldown exponent.
MaxSoloSteps == 3

PoolBudget == MaxPoolSteps + (IF Len(keys) <= 1 THEN MaxSoloSteps ELSE 0)

PoolStep == steps < PoolBudget /\ steps' = steps + 1

PoolGetNextKey ==
    LET r == getNextKey(keys, keyStatus, currentIndex, now)
    IN  /\ PoolStep
        /\ keyStatus' = r.status
        /\ currentIndex' = r.index
        /\ poolRet' = [op |-> "getNextKey", key |-> r.key, at |-> now,
                       fallback |-> r.fallback]
        /\ UNCHANGED <<now, keys, notPool>>

\* reportSuccess(key)
reportSuccess(st, key) ==
    IF key \notin DOMAIN st THEN st
    ELSE [st EXCEPT ![key].errorCount = Max(0, @ - 1),
                    ![key].isHealthy = TRUE]

PoolReportSuccess(key) ==
    /\ PoolStep
    /\ keyStatus' = reportSuccess(keyStatus, key)
    /\ poolRet' = [op |-> "reportSuccess", key |-> key, at |-> now,
                   fallback |-> FALSE]
    /\ UNCHANGED <<now, keys, currentIndex, notPool>>

\* reportError(key, errorCode)
reportError(st, key, errorCode, t) ==
    IF key \notin DOMAIN st THEN st
    ELSE LET n == st[key].errorCount + 1
         IN  IF errorCode = RATE_LIMIT_STATUS
             THEN [st EXCEPT ![key].errorCount = n,
                             ![key].cooldownUntil = t + RateLimitCooldown(n),
                             ![key].isHealthy = FALSE]
             ELSE IF n >= MAX_ERRORS_BEFORE_COOLDOWN
             THEN [st EXCEPT ![key].errorCount = n,
                             ![key].cooldownUntil = t + COOLDOWN_DURATION,
                             ![key].isHealthy = FALSE]
             ELSE [st EXCEPT ![key].errorCount = n]

ErrorCodes == {RATE_LIMIT_STATUS, 500}

PoolReportError(key, errorCode) ==
    /\ PoolStep
    /\ keyStatus' = reportError(keyStatus, key, errorCode, now)
    /\ poolRet' = [op |-> "reportError", key |-> key, at |-> now,
                   fallback |-> FALSE]
    /\ UNCHANGED <<now, keys, currentIndex, notPool>>

\* resetAll()
PoolResetAll ==
    /\ PoolStep
    /\ keyStatus' = [k \in DOMAIN keyStatus |->
                        [keyStatus[k] EXCEPT !.isHealthy = TRUE,
                                             !.errorCount = 0,
                                             !.cooldownUntil = 0]]
    /\ poolRet' = [op |-> "resetAll", key |-> Null, at |-> now,
                   fallback |-> FALSE]
    /\ UNCHANGED <<now, keys, currentIndex, notPool>>

\* The clock of the pool advances by the flat cooldown or by the first
\* rate-limit cooldown, up to PoolHorizon after the start.
PoolHorizon == 3 * COOLDOWN_DURATION

TickPool ==
    /\ \E d \in {COOLDOWN_DURATION, RateLimitCooldown(1)} :
          /\ now + d <= StartTime + PoolHorizon
          /\ now' = now + d
    /\ UNCHANGED <<steps, cacheVars, notCache>>

SeqRange(s) == {s[i] : i \in 1..Len(s)}

\* initializeKeys(): every configured key starts healthy and unused; the
\* start index is random.
InitPoolVars ==
    /\ \E n \in 0..MaxKeys :
          /\ keys = SubSeq(KeyNames, 1, n)
          /\ currentIndex \in (IF n = 0 THEN {0} ELSE 0..(n - 1))
    /\ keyStatus = [k \in SeqRange(keys) |-> NewKeyStatus]
    /\ poolRet = [op |-> "none", key |-> Null, at |-> 0, fallback |-> FALSE]

IdlePool ==
    /\ keys = <<>>
    /\ currentIndex = 0
    /\ keyStatus = [k \in {} |-> NewKeyStatus]
    /\ poolRet = [op |-> "none", key |-> Null, at |-> 0, fallback |-> FALSE]

(***************************************************************************)
(*                              Scheduler                                  *)
(***************************************************************************)
minFetchInterval == 5 * 60 * 1000

minAnalysisInterval == 15 * 60 * 1000

staleDataThreshold == 30 * 60 * 1000

maxProcessingTime == 2 * 60 * 1000

\* processStartTime: number | null; NullTime stands for null.
NullTime == -1

\* JavaScript truthiness of a number | null.
Truthy(x) == x # NullTime /\ x # 0

DefaultState == [lastRSSFetch |-> 0, lastAnalysis |-> 0, fetchCount |-> 0,
                 isProcessing |-> FALSE, processStartTime |-> NullTime]

\* The state file: either absent or a saved SchedulerState.
NoFile == [exists |-> FALSE, state |-> DefaultState]

SavedFile(st) == [exists |-> TRUE, state |-> st]

canFetchRSS(st, t) == t - st.lastRSSFetch >= minFetchInterval

canRunAnalysis(st, t) == t - st.lastAnalysis >= minAnalysisInterval

isDataStale(st, t) == t - st.lastAnalysis >= staleDataThreshold

\* The stuck-state test shared by init() and isCurrentlyProcessing().
ProcessingTimedOut(st, t) ==
    /\ Truthy(st.processStartTime)
    /\ t - st.processStartTime > maxProcessingTime

ClearProcessing(st) ==
    [st EXCEPT !.isProcessing = FALSE, !.processStartTime = NullTime]

\* Mutant of isCurrentlyProcessing: the stuck-state check is missing.
isCurrentlyProcessing_NoTimeout(st, t) ==
    [value |-> st.isProcessing, state |-> st]

\* isCurrentlyProcessing(): the value returned and the state it leaves.
isCurrentlyProcessing(st, t) ==
    IF ~st.isProcessing THEN [value |-> FALSE, state |-> st]
    ELSE IF ProcessingTimedOut(st, t)
    THEN [value |-> FALSE, state |-> ClearProcessing(st)]
    ELSE [value |-> TRUE, state |-> st]

\* Mutant of initState: the saved state is not loaded.
initState_NoReload(st, file, isInit, t) == st

\* init(): once per process, the saved state replaces the defaults and a
\* stuck processing flag is reset (in memory only).
initState(st, file, isInit, t) ==
    IF isInit \/ ~file.exists THEN st
    ELSE IF file.state.isProcessing /\ ProcessingTimedOut(file.state, t)
    THEN ClearProcessing(file.state)
    ELSE file.state

\* Mutant of DecideAction: the fetch_only rule does not test that analysis
\* is not yet allowed.
DecideAction_FetchOnlyFirst(st, t) ==
    IF isCurrentlyProcessing(st, t).value THEN "wait"
    ELSE IF isDataStale(st, t) /\ canRunAnalysis(st, t) THEN "fetch_and_analyze"
    ELSE IF canFetchRSS(st, t) THEN "fetch_only"
    ELSE "serve_cache"

\* Mutant of DecideAction: the stale rule is missing.
DecideAction_NoStaleRule(st, t) ==
    IF isCurrentlyProcessing(st, t).value THEN "wait"
    ELSE IF canFetchRSS(st, t) /\ ~canRunAnalysis(st, t) THEN "fetch_only"
    ELSE IF canFetchRSS(st, t) /\ canRunAnalysis(st, t) THEN "fetch_and_analyze"
    ELSE "serve_cache"

\* The decision of getNextAction() on the state left by
\* isCurrentlyProcessing().
DecideAction(st, t) ==
    IF isCurrentlyProcessing(st, t).value THEN "wait"
    ELSE IF isDataStale(st, t) /\ canRunAnalysis(st, t) THEN "fetch_and_analyze"
    ELSE IF canFetchRSS(st, t) /\ ~canRunAnalysis(st, t) THEN "fetch_only"
    ELSE IF canFetchRSS(st, t) /\ canRunAnalysis(st, t) THEN "fetch_and_analyze"
    ELSE "serve_cache"

MaxSchedSteps == 5

SchedStep == steps < MaxSchedSteps /\ steps' = steps + 1

Ret(op, action, startedAt) ==
    [op |-> op, action |-> action, at |-> now, startedAt |-> startedAt]

\* init()
SchedInit ==
    /\ SchedStep
    /\ ~initialized
    /\ schedState' = initState(schedState, stateFile, initialized, now)
    /\ initialized' = TRUE
    /\ schedRet' = Ret("init", Null, NullTime)
    /\ UNCHANGED <<now, stateFile, notSched>>

\* getNextAction(): init(), then the decision.
SchedGetNextAction ==
    LET st == initState(schedState, stateFile, initialized, now)
    IN  /\ SchedStep
        /\ initialized' = TRUE
        /\ schedState' = isCurrentlyProcessing(st, now).state
        /\ schedRet' = Ret("getNextAction", DecideAction(st, now),
                           IF st.isProcessing THEN st.processStartTime
                           ELSE NullTime)
        /\ UNCHANGED <<now, stateFile, notSched>>

\* A state-changing operation followed by saveState().
SchedUpdate(op, st) ==
    /\ SchedStep
    /\ initialized
    /\ schedState' = st
    /\ stateFile' = SavedFile(st)
    /\ schedRet' = Ret(op, Null, NullTime)
    /\ UNCHANGED <<now, initialized, notSched>>

startRSSFetch(st, t) ==
    [st EXCEPT !.isProcessing = TRUE, !.processStartTime = t]

completeRSSFetch(st, t) ==
    [st EXCEPT !.lastRSSFetch = t, !.fetchCount = @ + 1]

startAnalysis(st, t) ==
    [st EXCEPT !.isProcessing = TRUE, !.processStartTime = t]

\* completeAnalysis() that leaves processStartTime as it is
completeAnalysis_KeepsStartTime(st, t) ==
    [st EXCEPT !.lastAnalysis = t, !.isProcessing = FALSE]

completeAnalysis(st, t) ==
    [st EXCEPT !.lastAnalysis = t, !.isProcessing = FALSE,
               !.processStartTime = NullTime]

\* failProcessing() that leaves the flag as it is
failProcessing_KeepsFlag(st) == st

failProcessing(st) == ClearProcessing(st)

SchedStartRSSFetch == SchedUpdate("startRSSFetch", startRSSFetch(schedState, now))

SchedCompleteRSSFetch ==
    SchedUpdate("completeRSSFetch", completeRSSFetch(schedState, now))

SchedStartAnalysis == SchedUpdate("startAnalysis", startAnalysis(schedState, now))

SchedCompleteAnalysis ==
    SchedUpdate("completeAnalysis", completeAnalysis(schedState, now))

SchedFailProcessing == SchedUpdate("failProcessing", failProcessing(schedState))

\* reset()
SchedReset == SchedUpdate("reset", DefaultState)

\* getStatus(): reads the flags; isCurrentlyProcessing() may clear a stuck
\* processing flag.
SchedGetStatus ==
    /\ SchedStep
    /\ initialized
    /\ schedState' = isCurrentlyProcessing(schedState, now).state
    /\ schedRet' = Ret("getStatus", Null, NullTime)
    /\ UNCHANGED <<now, stateFile, initialized, notSched>>

\* The process restarts: a new Scheduler object, the file stays.
SchedRestart ==
    /\ SchedStep
    /\ initialized
    /\ schedState' = DefaultState
    /\ initialized' = FALSE
    /\ schedRet' = Ret("restart", Null, NullTime)
    /\ UNCHANGED <<now, stateFile, notSched>>



Minute == 60 * 1000



\* The instants of the scheduler's clock, as minutes after the start; each
\* is followed by up to MaxFineTicks single milliseconds.
SchedMinutes == {0, 2, 5, 15, 17, 20, 30}

SchedInstants ==
    {StartTime + m * Minute + f : m \in SchedMinutes, f \in 0..MaxFineTicks}

TickSched ==
    /\ \E t \in SchedInstants : t > now /\ now' = t
    /\ UNCHANGED <<steps, schedVars, notSched>>

\* ---- requests that keep arriving ----
\* A non-forced request asks getNextAction(); requests are not counted.
SchedRequest ==
    LET st == initState(schedState, stateFile, initialized, now)
    IN  /\ initialized' = TRUE
        /\ schedState' = isCurrentlyProcessing(st, now).state
        /\ schedRet' = Ret("getNextAction", DecideAction(st, now),
                           IF st.isProcessing THEN st.processStartTime
                           ELSE NullTime)
        /\ UNCHANGED <<now, steps, stateFile, notSched>>

\* The last instant at which an operation other than a request is made:
\* the clock runs on for ten minutes after it.
LastOperation == StartTime + 20 * Minute

MaxLiveOperations == 4

\* an operation of the scheduler other than a request
SchedOperation ==
    /\ now <= LastOperation
    /\ steps < MaxLiveOperations
    /\ \/ SchedInit
       \/ SchedStartRSSFetch
       \/ SchedCompleteRSSFetch
       \/ SchedStartAnalysis
       \/ SchedCompleteAnalysis
       \/ SchedFailProcessing
       \/ SchedGetStatus
       \/ SchedRestart

InitSchedVars ==
    /\ schedState = DefaultState
    /\ stateFile = NoFile
    /\ initialized = FALSE
    /\ schedRet = [op |-> "none", action |-> Null, at |-> 0,
                   startedAt |-> NullTime]

(***************************************************************************)
(*                     Text: JavaScript string operations                  *)
(*                                                                         *)
(* A string is the sequence of its characters, each a one-character        *)
(* string, so that case folding, searching, replacing and slicing act on   *)
(* characters as they do in the code.                                      *)
(***************************************************************************)
UpperCase == <<"A", "B", "C", "D", "E", "F", "G", "H", "I", "J", "K", "L",
    "M", "N", "O", "P", "Q", "R", "S", "T", "U", "V", "W", "X", "Y", "Z">>

LowerCase == <<"a", "b", "c", "d", "e", "f", "g", "h", "i", "j", "k", "l",
    "m", "n", "o", "p", "q", "r", "s", "t", "u", "v", "w", "x", "y", "z">>

Digits == {"0", "1", "2", "3", "4", "5", "6", "7", "8", "9"}

HexLetters == {"a", "b", "c", "d", "e", "f", "A", "B", "C", "D", "E", "F"}

\* \s of the regular expressions (the characters of it that titles hold)
WhiteSpace == {" "}

CharSet(s) == {s[i] : i \in 1..Len(s)}

LowerOf == [c \in CharSet(UpperCase) |->
              LowerCase[CHOOSE i \in 1..Len(UpperCase) : UpperCase[i] = c]]

\* String.prototype.toLowerCase
toLowerCase(s) ==
    [i \in 1..Len(s) |->
        IF s[i] \in DOMAIN LowerOf THEN LowerOf[s[i]] ELSE s[i]]

\* pattern p occurs in s at position i (1-based)
OccursAt(s, p, i) ==
    /\ i >= 1
    /\ i + Len(p) - 1 <= Len(s)
    /\ \A k \in 1..Len(p) : s[i + k - 1] = p[k]

\* String.prototype.includes
includes(s, p) == \E i \in 1..(Len(s) - Len(p) + 1) : OccursAt(s, p, i)

\* patterns.some(p => s.includes(p))
includesAny(s, patterns) == \E p \in patterns : includes(s, p)

\* s with the n characters at position i removed
RemoveAt(s, i, n) == SubSeq(s, 1, i - 1) \o SubSeq(s, i + n, Len(s))

\* s.replace(p, '') for a literal pattern: the first occurrence only
RemoveFirst(s, p) ==
    IF includes(s, p)
    THEN LET i == CHOOSE j \in 1..Len(s) :
                     /\ OccursAt(s, p, j)
                     /\ \A k \in 1..(j - 1) : ~OccursAt(s, p, k)
         IN  RemoveAt(s, i, Len(p))
    ELSE s

\* String.prototype.slice(0, n)
sliceTo(s, n) == SubSeq(s, 1, IF Len(s) < n THEN Len(s) ELSE n)

IsDigit(c) == c \in Digits

IsLetter(c) == c \in CharSet(LowerCase) \cup CharSet(UpperCase)

\* \w of the regular expressions
IsWordChar(c) == IsLetter(c) \/ IsDigit(c) \/ c = "_"

IsHexChar(c) == IsDigit(c) \/ c \in HexLetters

WordAt(s, i) == i >= 1 /\ i <= Len(s) /\ IsWordChar(s[i])

\* \b between the characters i - 1 and i
WordBoundary(s, i) == WordAt(s, i - 1) # WordAt(s, i)

CharAt(s, i, c) == i >= 1 /\ i <= Len(s) /\ s[i] = c

\* the last position of the run of digits that starts at i (i - 1: no digit)
RECURSIVE DigitRunEnd(_, _)
DigitRunEnd(s, i) ==
    IF i >= 1 /\ i <= Len(s) /\ IsDigit(s[i]) THEN DigitRunEnd(s, i + 1)
    ELSE i - 1

\* \d+\.\d+\.\d+\b matches at position i
VersionTripleAt(s, i) ==
    LET e1 == DigitRunEnd(s, i)
        e2 == DigitRunEnd(s, e1 + 2)
        e3 == DigitRunEnd(s, e2 + 2)
    IN  /\ e1 >= i
        /\ CharAt(s, e1 + 1, ".")
        /\ e2 >= e1 + 2
        /\ CharAt(s, e2 + 1, ".")
        /\ e3 >= e2 + 2
        /\ WordBoundary(s, e3 + 1)

\* /\bv?\d+\.\d+\.\d+\b/ matches somewhere in s
MatchesVersion(s) ==
    \E i \in 1..Len(s) :
        /\ WordBoundary(s, i)
        /\ \/ VersionTripleAt(s, i)
           \/ s[i] = "v" /\ VersionTripleAt(s, i + 1)

\* \d+\.0\.0\b matches at position i
MajorTripleAt(s, i) ==
    LET e1 == DigitRunEnd(s, i)
    IN  /\ e1 >= i
        /\ OccursAt(s, <<".", "0", ".", "0">>, e1 + 1)
        /\ WordBoundary(s, e1 + 5)

\* /\bv?\d+\.0\.0\b/ matches somewhere in s
MatchesMajorVersion(s) ==
    \E i \in 1..Len(s) :
        /\ WordBoundary(s, i)
        /\ \/ MajorTripleAt(s, i)
           \/ s[i] = "v" /\ MajorTripleAt(s, i + 1)

\* [a-z\s\-] under the i flag
IsNameChar(c) == IsLetter(c) \/ c \in WhiteSpace \/ c = "-"

AllDigits(s, from, to) == \A k \in from..to : IsDigit(s[k])

AllHexChars(s, from, to) == \A k \in from..to : IsHexChar(s[k])

AllNameChars(s, from, to) == \A k \in from..to : IsNameChar(s[k])

\* /^[a-z\s\-]+\s*b\d{4,}/i matches s
MatchesBuildTag(s) ==
    \E p \in 2..(Len(s) - 4) :
        /\ s[p] \in {"b", "B"}
        /\ AllDigits(s, p + 1, p + 4)
        /\ AllNameChars(s, 1, p - 1)

\* \s*-?\s* matches the characters from..to of s
IsHashSeparator(s, from, to) ==
    /\ \A k \in from..to : s[k] \in WhiteSpace \/ s[k] = "-"
    /\ Cardinality({k \in from..to : s[k] = "-"}) <= 1

\* /^[a-z\s\-]+\s*[a-f0-9]{7,}\s*-?\s*[a-f0-9]{7,}$/i matches s
MatchesHashPair(s) ==
    /\ Len(s) >= 15
    /\ AllHexChars(s, Len(s) - 6, Len(s))
    /\ IsNameChar(s[1])
    /\ \E r \in 9..(Len(s) - 6) :
          /\ AllHexChars(s, r, Len(s))
          /\ \E q \in 8..(r - 1) :
                /\ IsHashSeparator(s, q + 1, r - 1)
                /\ \E p \in 1..(q - 7) :
                      /\ AllHexChars(s, p + 1, q)
                      /\ AllNameChars(s, 1, p)


(***************************************************************************)
(*              Aggregator: fetchAllSources / deduplicateAndFilter         *)
(***************************************************************************)
Day == 24 * 60 * 60 * 1000

\* fetchAllSources(lookbackDays = 3); the route passes 3 as well
lookbackDays == 3

\* new Date(item.pubDate): the instant the string parses to, or an Invalid
\* Date (getTime() is NaN)
ValidDate(t) == [valid |-> TRUE, time |-> t]

InvalidDate == [valid |-> FALSE, time |-> 0]

\* item.sourceTier is optional
NoTier == "none"

NewsItem(title, link, pubDate, source, sourceTier, contentSnippet) ==
    [title |-> title, link |-> link, pubDate |-> pubDate, source |-> source,
     sourceTier |-> sourceTier, contentSnippet |-> contentSnippet]

\* The items the source fetchers can return.  Publication times are taken
\* relative to the start of the run.
Catalogue ==
    [ oc1 |-> NewsItem(<<"I", "n", "t", "r", "o", "d", "u", "c", "i", "n",
        "g", " ", "W", "i", "d", "g", "e", "t", " ", "2", ".", "0">>, <<"h",
        "t", "t", "p", ":", "/", "/", "F", "o", "o", ".", "c", "o", "m", "/",
        "b", "a", "r", "/">>,
                       ValidDate(StartTime - Day), <<"O", "p", "e", "n", "A",
                           "I", " ", "B", "l", "o", "g">>,
                       "official", <<>>),
      oc2 |-> NewsItem(<<"E", "d", "i", "t", "o", "r", " ", "t", "a", "b",
          " ", "c", "o", "m", "p", "l", "e", "t", "i", "o", "n", " ", "i",
          "m", "p", "r", "o", "v", "e", "d">>,
                       <<"h", "t", "t", "p", "s", ":", "/", "/", "c", "o",
                           "d", "e", ".", "e", "x", "a", "m", "p", "l", "e",
                           ".", "c", "o", "m", "/", "t", "a", "b">>,
                       ValidDate(StartTime - Day), <<"V", "S", " ", "C", "o",
                           "d", "e", " ", "U", "p", "d", "a", "t", "e", "s">>,
                       "official", <<"F", "a", "s", "t", "e", "r", " ", "s",
                           "u", "g", "g", "e", "s", "t", "i", "o", "n",
                           "s">>),
      gh1 |-> NewsItem(<<"c", "h", "o", "r", "e", ":", " ", "b", "u", "m",
          "p", " ", "d", "e", "p", "s", " ", "t", "o", " ", "1", ".", "2",
          ".", "4">>,
                       <<"h", "t", "t", "p", "s", ":", "/", "/", "g", "i",
                           "t", "h", "u", "b", ".", "c", "o", "m", "/", "o",
                           "/", "r", "/", "1">>,
                       ValidDate(StartTime - Day), <<"G", "i", "t", "H", "u",
                           "b", ":", " ", "o", "l", "l", "a", "m", "a">>,
                       "official", <<>>),
      gh3 |-> NewsItem(<<"T", "o", "o", "l", "k", "i", "t", " ", "v", "1",
          ".", "2", ".", "3", " ", "i", "s", " ", "o", "u", "t", " ", "n",
          "o", "w">>,
                       <<"h", "t", "t", "p", "s", ":", "/", "/", "g", "i",
                           "t", "h", "u", "b", ".", "c", "o", "m", "/", "t",
                           "/", "k", "/", "3">>,
                       ValidDate(StartTime - Day), <<"G", "i", "t", "H", "u",
                           "b", ":", " ", "t", "o", "o", "l", "k", "i", "t">>,
                       "official", <<"A", " ", "m", "a", "j", "o", "r", " ",
                           "r", "e", "w", "r", "i", "t", "e">>),
      gh4 |-> NewsItem(<<"N", "E", "W", " ", "A", "g", "e", "n", "t", " ",
          "T", "o", "o", "l", "k", "i", "t", " ", "-", " ", "f", "o", "r",
          " ", "b", "u", "i", "l", "d", "e", "r", "s">>,
                       <<"h", "t", "t", "p", "s", ":", "/", "/", "o", "t",
                           "h", "e", "r", ".", "e", "x", "a", "m", "p", "l",
                           "e", ".", "o", "r", "g", "/", "a">>,
                       ValidDate(StartTime - (2 * Day)), <<"G", "i", "t",
                           "H", "u", "b", " ", "B", "l", "o", "g">>,
                       "trusted", <<>>),
      hn1 |-> NewsItem(<<"F", "o", "o", " ", "l", "a", "u", "n", "c", "h",
          "e", "s", " ", "W", "i", "d", "g", "e", "t", " ", "t", "o", "d",
          "a", "y">>,
                       <<"h", "t", "t", "p", "s", ":", "/", "/", "w", "w",
                           "w", ".", "f", "o", "o", ".", "c", "o", "m", "/",
                           "b", "a", "r">>,
                       ValidDate(StartTime - 1), <<"H", "a", "c", "k", "e",
                           "r", " ", "N", "e", "w", "s">>,
                       "community", <<"1", "2", "0", " ", "p", "o", "i", "n",
                           "t", "s">>),
      hn2 |-> NewsItem(<<"A", ".", "I", ".", " ", "-", "-", " ", "2", "0",
          "2", "5", " ", "!", "!", "!", " ", ".", ".", ".">>, <<"h", "t",
          "t", "p", "s", ":", "/", "/", "h", "n", ".", "e", "x", "a", "m",
          "p", "l", "e", "/", "1">>,
                       ValidDate(StartTime - Day), <<"H", "a", "c", "k", "e",
                           "r", " ", "N", "e", "w", "s">>,
                       "community", <<>>),
      hn3 |-> NewsItem(<<"A", "g", "e", "n", "t", " ", "m", "o", "d", "e",
          " ", "l", "a", "u", "n", "c", "h", "e", "s", " ", "w", "i", "d",
          "e", "l", "y">>,
                       <<"h", "t", "t", "p", "s", ":", "/", "/", "h", "n",
                           ".", "e", "x", "a", "m", "p", "l", "e", "/", "3">>,
                       InvalidDate, <<"H", "a", "c", "k", "e", "r", " ", "N",
                           "e", "w", "s">>, "trusted", <<>>),
      rs1 |-> NewsItem(<<"N", "e", "w", " ", "a", "g", "e", "n", "t", " ",
          "t", "o", "o", "l", "k", "i", "t", " ", "f", "o", "r", " ", "b",
          "u", "i", "l", "d", "e", "r", "s">>,
                       <<"h", "t", "t", "p", "s", ":", "/", "/", "e", "x",
                           "a", "m", "p", "l", "e", ".", "c", "o", "m", "/",
                           "a", "g", "e", "n", "t", "s">>,
                       ValidDate(StartTime - Day), <<"T", "e", "c", "h", "C",
                           "r", "u", "n", "c", "h">>,
                       "trusted", <<>>),
      rs2 |-> NewsItem(<<"A", "I", " ", "2", "0", "2", "5", " ", "?", "!",
          "?", "!", "?", "!", "?", "!", "?", "!", "?">>, <<"h", "t", "t",
          "p", "s", ":", "/", "/", "a", "i", "w", "e", "e", "k", "l", "y",
          ".", "e", "x", "a", "m", "p", "l", "e", "/", "7">>,
                       ValidDate(StartTime - Day), <<"A", "I", " ", "W", "e",
                           "e", "k", "l", "y">>,
                       "aggregator", <<>>),
      ph1 |-> NewsItem(<<"W", "o", "r", "k", "f", "l", "o", "w", " ", "b",
          "u", "i", "l", "d", "e", "r", " ", "f", "o", "r", " ", "t", "e",
          "a", "m", "s">>,
                       <<"h", "t", "t", "p", "s", ":", "/", "/", "o", "t",
                           "h", "e", "r", ".", "e", "x", "a", "m", "p", "l",
                           "e", ".", "o", "r", "g", "/", "a">>,
                       ValidDate(StartTime - Day), <<"P", "r", "o", "d", "u",
                           "c", "t", " ", "H", "u", "n", "t">>,
                       NoTier, <<>>),
      ph2 |-> NewsItem(<<"D", "e", "e", "p", "S", "e", "e", "k", " ", "l",
          "a", "u", "n", "c", "h", "e", "s", " ", "c", "o", "d", "i", "n",
          "g", " ", "m", "o", "d", "e", "l">>,
                       <<"h", "t", "t", "p", "s", ":", "/", "/", "p", "h",
                           ".", "e", "x", "a", "m", "p", "l", "e", "/", "p",
                           "/", "2">>,
                       ValidDate(StartTime - 1), <<"P", "r", "o", "d", "u",
                           "c", "t", " ", "H", "u", "n", "t">>,
                       NoTier, <<>>),
      ph3 |-> NewsItem(<<"K", "i", "m", "i", " ", "a", "g", "e", "n", "t",
          " ", "t", "o", "o", "l", "k", "i", "t", " ", "f", "o", "r", " ",
          "b", "u", "i", "l", "d", "e", "r", "s">>,
                       <<"h", "t", "t", "p", ":", "/", "/", "e", "x", "a",
                           "m", "p", "l", "e", ".", "c", "o", "m", "/", "a",
                           "g", "e", "n", "t", "s", "/">>,
                       ValidDate(StartTime - Day), <<"P", "r", "o", "d", "u",
                           "c", "t", " ", "H", "u", "n", "t">>,
                       NoTier, <<>>),
      cu1 |-> NewsItem(<<"C", "u", "r", "s", "o", "r", " ", "2", " ", "a",
          "d", "d", "s", " ", "b", "a", "c", "k", "g", "r", "o", "u", "n",
          "d", " ", "a", "g", "e", "n", "t", "s">>,
                       <<"h", "t", "t", "p", "s", ":", "/", "/", "c", "u",
                           "r", "s", "o", "r", ".", "e", "x", "a", "m", "p",
                           "l", "e", "/", "c", "h", "a", "n", "g", "e", "l",
                           "o", "g", "/", "2">>,
                       ValidDate(StartTime - (2 * Day)),
                       <<"C", "u", "r", "s", "o", "r", " ", "C", "h", "a",
                           "n", "g", "e", "l", "o", "g">>,
                       "official", <<>>),
      vs1 |-> NewsItem(<<"N", "e", "w", " ", "i", "n", " ", "V", "S", " ",
          "C", "o", "d", "e", ":", " ", "f", "a", "s", "t", "e", "r", " ",
          "s", "e", "a", "r", "c", "h">>,
                       <<"h", "t", "t", "p", "s", ":", "/", "/", "c", "o",
                           "d", "e", ".", "e", "x", "a", "m", "p", "l", "e",
                           "/", "u", "p", "d", "a", "t", "e", "s", "/", "v",
                           "1">>,
                       ValidDate(StartTime - Day),
                       <<"V", "S", " ", "C", "o", "d", "e">>,
                       "official", <<>>) ]

ItemIds == DOMAIN Catalogue

\* STEP 1: the predicate of items.filter (true: the item is kept)
NoiseFilter(item) ==
    LET title == toLowerCase(item.title)
        content == toLowerCase(item.contentSnippet)
        fullText == title \o <<" ">> \o content
        significant == {<<"m", "a", "j", "o", "r">>, <<"b", "r", "e", "a",
            "k", "i", "n", "g">>, <<"n", "e", "w", " ", "f", "e", "a", "t",
            "u", "r", "e">>,
                        <<"i", "n", "t", "r", "o", "d", "u", "c", "i", "n",
                            "g">>}
        skipPatterns == {<<"c", "h", "o", "r", "e", ":">>, <<"c", "h", "o",
            "r", "e", "(">>, <<"d", "e", "p", "s", ":">>, <<"c", "i", ":">>,
                         <<"t", "e", "s", "t", ":">>, <<"d", "o", "c", "s",
                             ":">>, <<"b", "u", "m", "p", " ", "v", "e", "r",
                             "s", "i", "o", "n">>,
                         <<"b", "u", "m", "p", " ", "t", "o">>, <<"d", "e",
                             "p", "e", "n", "d", "e", "n", "c", "y", " ",
                             "u", "p", "d", "a", "t", "e">>, <<"r", "e", "f",
                             "a", "c", "t", "o", "r", ":">>,
                         <<"c", "l", "e", "a", "n", "u", "p">>, <<"t", "y",
                             "p", "o">>, <<"l", "i", "n", "t">>,
                         <<"m", "e", "r", "g", "e", " ", "p", "u", "l", "l",
                             " ", "r", "e", "q", "u", "e", "s", "t">>, <<"m",
                             "e", "r", "g", "e", " ", "b", "r", "a", "n",
                             "c", "h">>}
    IN  /\ ~(/\ MatchesVersion(title)
             /\ ~MatchesMajorVersion(title)
             /\ ~includesAny(fullText, significant))
        /\ ~MatchesBuildTag(title)
        /\ ~MatchesHashPair(title)
        /\ ~includesAny(title, skipPatterns)
        /\ ~(Len(title) < 15)
        /\ item.link # <<>>

tierOrder == [official |-> 0, trusted |-> 1, community |-> 2, aggregator |-> 3]

Bonus(cond, points) == IF cond THEN points ELSE 0

\* STEP 2: the score of filtered.map
Score(item) ==
    LET title == toLowerCase(item.title)
        content == toLowerCase(item.contentSnippet)
        fullText == title \o <<" ">> \o content
        tier == IF item.sourceTier = NoTier THEN "aggregator"
                ELSE item.sourceTier
        officialSources == {<<"o", "p", "e", "n", "a", "i">>, <<"a", "n",
            "t", "h", "r", "o", "p", "i", "c">>, <<"g", "o", "o", "g", "l",
            "e", " ", "a", "i">>,
                            <<"d", "e", "e", "p", "m", "i", "n", "d">>,
                                <<"m", "e", "t", "a", " ", "a", "i">>, <<"m",
                                "i", "s", "t", "r", "a", "l">>}
        modelKeywords == {<<"g", "p", "t", "-", "5">>, <<"c", "l", "a", "u",
            "d", "e", " ", "4">>, <<"g", "e", "m", "i", "n", "i", " ", "3">>,
            <<"l", "l", "a", "m", "a", " ", "4">>,
                          <<"g", "r", "o", "k">>, <<"k", "i", "m", "i">>,
                              <<"d", "e", "e", "p", "s", "e", "e", "k">>}
        ideKeywords == {<<"c", "u", "r", "s", "o", "r">>, <<"c", "o", "p",
            "i", "l", "o", "t">>, <<"w", "i", "n", "d", "s", "u", "r", "f">>,
            <<"c", "o", "d", "e", "i", "u", "m">>,
                        <<"v", "s", " ", "c", "o", "d", "e">>, <<"v", "s",
                            "c", "o", "d", "e">>}
        frameworkKeywords == {<<"l", "a", "n", "g", "c", "h", "a", "i",
            "n">>, <<"l", "l", "a", "m", "a", "i", "n", "d", "e", "x">>,
            <<"c", "r", "e", "w", "a", "i">>,
                              <<"a", "u", "t", "o", "g", "e", "n">>, <<"m",
                                  "c", "p">>, <<"r", "a", "g">>}
    IN  (3 - tierOrder[tier]) * 20
        + Bonus(includesAny(toLowerCase(item.source), officialSources), 50)
        + Bonus(includesAny(fullText, modelKeywords), 40)
        + Bonus(includesAny(fullText, ideKeywords), 30)
        + Bonus(includesAny(fullText, frameworkKeywords), 25)
        + Bonus(includesAny(fullText, {<<"l", "a", "u", "n", "c", "h">>,
            <<"i", "n", "t", "r", "o", "d", "u", "c", "i", "n", "g">>,
                                       <<"a", "n", "n", "o", "u", "n", "c",
                                           "i", "n", "g">>, <<"r", "e", "l",
                                           "e", "a", "s", "e">>}), 20)
        + Bonus(includesAny(fullText, {<<"p", "r", "o", "m", "p", "t", " ",
            "e", "n", "g", "i", "n", "e", "e", "r", "i", "n", "g">>,
                                       <<"p", "r", "o", "m", "p", "t", "i",
                                           "n", "g">>}), 25)
        + Bonus(includesAny(fullText, {<<"a", "i", " ", "e", "n", "g", "i",
            "n", "e", "e", "r">>, <<"g", "e", "n", " ", "a", "i">>,
                                       <<"g", "e", "n", "e", "r", "a", "t",
                                           "i", "v", "e", " ", "a", "i">>}),
                                           20)
        - Bonus(includesAny(fullText, {<<"b", "u", "g", " ", "f", "i", "x">>,
            <<"p", "a", "t", "c", "h">>}), 30)
        - Bonus(/\ includes(fullText, <<"m", "i", "n", "o", "r">>)
                /\ ~includes(fullText, <<"m", "i", "n", "o", "r", " ", "f",
                    "e", "a", "t", "u", "r", "e">>), 20)

\* /https?:\/\// matches at position i: the length of the match, else 0
SchemeAt(s, i) ==
    IF OccursAt(s, <<"h", "t", "t", "p", "s", ":", "/", "/">>, i) THEN 8
    ELSE IF OccursAt(s, <<"h", "t", "t", "p", ":", "/", "/">>, i) THEN 7
    ELSE 0

\* s.replace(/https?:\/\//, ''): the first match only
RemoveScheme(s) ==
    IF \E i \in 1..Len(s) : SchemeAt(s, i) > 0
    THEN LET i == CHOOSE j \in 1..Len(s) :
                     /\ SchemeAt(s, j) > 0
                     /\ \A k \in 1..(j - 1) : SchemeAt(s, k) = 0
         IN  RemoveAt(s, i, SchemeAt(s, i))
    ELSE s

\* s.replace(/\/$/, '')
RemoveTrailingSlash(s) ==
    IF Len(s) > 0 /\ s[Len(s)] = "/" THEN SubSeq(s, 1, Len(s) - 1) ELSE s

\* STEP 3: normalizedUrl
NormalizeUrl(link) ==
    RemoveTrailingSlash(RemoveFirst(RemoveScheme(toLowerCase(link)), <<"w",
        "w", "w", ".">>))

TITLE_KEY_LENGTH == 50

MIN_TITLE_KEY == 10

\* STEP 3: normalizedTitle
NormalizeTitle(title) ==
    LET IsKept(c) == c \in CharSet(LowerCase) \/ IsDigit(c)
    IN  sliceTo(SelectSeq(toLowerCase(title), IsKept), TITLE_KEY_LENGTH)

\* What the pass computes of each item, computed once per catalogue item.
passesNoiseFilter == [id \in ItemIds |-> NoiseFilter(Catalogue[id])]

score == [id \in ItemIds |-> Score(Catalogue[id])]

normalizedUrl == [id \in ItemIds |-> NormalizeUrl(Catalogue[id].link)]

normalizedTitle == [id \in ItemIds |-> NormalizeTitle(Catalogue[id].title)]

pubDate == [id \in ItemIds |-> Catalogue[id].pubDate]


\* the comparator of scored.sort: negative when a sorts before b.  A
\* difference of dates one of which is invalid is NaN, which sort reads as 0.
compareScored(a, b) ==
    IF score[b] # score[a] THEN score[b] - score[a]
    ELSE IF pubDate[a].valid /\ pubDate[b].valid
         THEN pubDate[b].time - pubDate[a].time
         ELSE 0

\* Array.prototype.sort is stable: x goes after the elements that do not
\* sort after it
InsertSorted(sorted, x) ==
    LET k == Cardinality({i \in 1..Len(sorted) :
                             compareScored(sorted[i], x) <= 0})
    IN  SubSeq(sorted, 1, k) \o <<x>> \o SubSeq(sorted, k + 1, Len(sorted))

RECURSIVE StableSort(_)
StableSort(seq) ==
    IF seq = <<>> THEN <<>>
    ELSE InsertSorted(StableSort(SubSeq(seq, 1, Len(seq) - 1)), seq[Len(seq)])

\* The comparator is consistent on items of one score unless an item with an
\* invalid date (equal to every other) meets two items whose dates differ.
ConsistentGroup(group) ==
    ~ \E i, j, k \in 1..Len(group) :
          /\ ~pubDate[group[i]].valid
          /\ pubDate[group[j]].valid
          /\ pubDate[group[k]].valid
          /\ pubDate[group[j]].time # pubDate[group[k]].time

RECURSIVE Orderings(_)
Orderings(seq) ==
    IF seq = <<>> THEN {<<>>}
    ELSE UNION {{<<seq[i]>> \o rest :
                    rest \in Orderings(SubSeq(seq, 1, i - 1)
                                       \o SubSeq(seq, i + 1, Len(seq)))} :
                i \in 1..Len(seq)}

\* The orders sort can leave the items in.  With a consistent comparator it
\* is the stable order.  Otherwise the order is implementation-defined;
\* items of different scores are still compared by score alone, so the
\* items of one score stay together, in any order.
RECURSIVE SortedByGroup(_, _)
SortedByGroup(seq, scores) ==
    IF scores = {} THEN {<<>>}
    ELSE LET top == CHOOSE s \in scores : \A o \in scores : o <= s
             InGroup(id) == score[id] = top
             group == SelectSeq(seq, InGroup)
             heads == IF ConsistentGroup(group) THEN {StableSort(group)}
                      ELSE Orderings(group)
         IN  {h \o t : h \in heads, t \in SortedByGroup(seq, scores \ {top})}

sortScored(seq) == SortedByGroup(seq, {score[seq[i]] : i \in 1..Len(seq)})

\* isNaN(date.getTime()) || !isAfter(date, cutoffDate)
OutsideWindow(id, cutoff) ==
    ~pubDate[id].valid \/ ~(pubDate[id].time > cutoff)

\* STEP 3 without the lookup in seenUrls
RECURSIVE Deduplicate_NoUrlCheck(_, _, _, _)
Deduplicate_NoUrlCheck(sorted, cutoff, seenUrls, seenTitles) ==
    IF sorted = <<>> THEN <<>>
    ELSE LET id == Head(sorted)
             url == normalizedUrl[id]
             title == normalizedTitle[id]
         IN  IF OutsideWindow(id, cutoff)
             THEN Deduplicate_NoUrlCheck(Tail(sorted), cutoff,
                                         seenUrls, seenTitles)
             ELSE IF Len(title) > MIN_TITLE_KEY /\ title \in seenTitles
             THEN Deduplicate_NoUrlCheck(Tail(sorted), cutoff,
                                         seenUrls \cup {url}, seenTitles)
             ELSE <<id>> \o Deduplicate_NoUrlCheck(Tail(sorted), cutoff,
                                seenUrls \cup {url}, seenTitles \cup {title})

\* STEP 3: the predicate of scored.filter, applied along the sorted list
RECURSIVE Deduplicate(_, _, _, _)
Deduplicate(sorted, cutoff, seenUrls, seenTitles) ==
    IF sorted = <<>> THEN <<>>
    ELSE LET id == Head(sorted)
             url == normalizedUrl[id]
             title == normalizedTitle[id]
         IN  IF OutsideWindow(id, cutoff)
             THEN Deduplicate(Tail(sorted), cutoff, seenUrls, seenTitles)
             ELSE IF url \in seenUrls
             THEN Deduplicate(Tail(sorted), cutoff, seenUrls, seenTitles)
             ELSE IF Len(title) > MIN_TITLE_KEY /\ title \in seenTitles
             THEN Deduplicate(Tail(sorted), cutoff,
                              seenUrls \cup {url}, seenTitles)
             ELSE <<id>> \o Deduplicate(Tail(sorted), cutoff,
                                seenUrls \cup {url}, seenTitles \cup {title})

MAX_OUTPUT_ITEMS == 50

\* deduplicateAndFilter(items, cutoffDate): the lists it can return
deduplicateAndFilter(items, cutoff) ==
    LET Keep(id) == passesNoiseFilter[id]
        filtered == SelectSeq(items, Keep)
    IN  {sliceTo(Deduplicate(sorted, cutoff, {}, {}), MAX_OUTPUT_ITEMS) :
            sorted \in sortScored(filtered)}

\* ---- fetchAllSources ----
sourceNames == <<"Official Changelogs", "GitHub Releases", "Hacker News",
                 "RSS Feeds", "Product Hunt">>

Fetchers == 1..Len(sourceNames)

\* what each fetcher can find
FetcherItems == <<{"oc1", "oc2"}, {"gh1", "gh3", "gh4"},
                  {"hn1", "hn2", "hn3"}, {"rs1", "rs2"},
                  {"ph1", "ph2", "ph3"}>>

\* the longest list one fetcher returns
MaxFetched == 1

\* the lists fetcher f can return: items of its source, none twice
FetcherLists(f) ==
    {list \in UNION {[1..n -> FetcherItems[f]] : n \in 0..MaxFetched} :
        \A i, j \in 1..Len(list) : i # j => list[i] # list[j]}

\* The settled promise of a fetcher; error records that the fetcher met an
\* error, whether it threw it or caught it.
Pending == [status |-> "pending", value |-> <<>>, error |-> FALSE]

Fulfilled(list) == [status |-> "fulfilled", value |-> list, error |-> FALSE]

Rejected == [status |-> "rejected", value |-> <<>>, error |-> TRUE]

\* the catch block of a fetcher: the error is logged and [] returned
Caught == [status |-> "fulfilled", value |-> <<>>, error |-> TRUE]

\* fetchHackerNewsAI and fetchProductHuntAI: one try block around the whole
\* fetch
CatchingFetchers == {3, 5}

NoResult == [items |-> <<>>, sourceStats |-> <<>>]

\* the sourceStats entry of results.forEach
SourceResult(f, result) ==
    IF result.status = "fulfilled"
    THEN [source |-> sourceNames[f], items |-> result.value, success |-> TRUE]
    ELSE [source |-> sourceNames[f], items |-> <<>>, success |-> FALSE]

\* results.forEach with a join that fails on the first rejection
RECURSIVE CollectItems_FailFast(_, _)
CollectItems_FailFast(settled, f) ==
    IF f > Len(settled) THEN <<>>
    ELSE IF \E g \in 1..Len(settled) : settled[g].status # "fulfilled"
    THEN <<>>
    ELSE settled[f].value \o CollectItems_FailFast(settled, f + 1)

\* results.forEach: allItems, from fetcher f on
RECURSIVE CollectItems(_, _)
CollectItems(settled, f) ==
    IF f > Len(settled) THEN <<>>
    ELSE IF settled[f].status = "fulfilled"
    THEN settled[f].value \o CollectItems(settled, f + 1)
    ELSE CollectItems(settled, f + 1)

\* fetchAllSources is called: the cutoff is fixed and the fetchers start
AggStart ==
    /\ aggPhase \in {"idle", "done"}
    /\ aggPhase' = "fetching"
    /\ cutoffDate' = now - lookbackDays * Day
    /\ results' = [f \in Fetchers |-> Pending]
    /\ aggRet' = NoResult
    /\ UNCHANGED <<now, steps, notAgg>>

\* a fetcher's promise is fulfilled with its items
FetcherFulfil(f, list) ==
    /\ aggPhase = "fetching"
    /\ results[f].status = "pending"
    /\ results' = [results EXCEPT ![f] = Fulfilled(list)]
    /\ UNCHANGED <<aggPhase, cutoffDate, aggRet, now, steps, notAgg>>

\* a fetcher's promise is rejected
FetcherReject(f) ==
    /\ aggPhase = "fetching"
    /\ results[f].status = "pending"
    /\ results' = [results EXCEPT ![f] = Rejected]
    /\ UNCHANGED <<aggPhase, cutoffDate, aggRet, now, steps, notAgg>>

\* a fetcher meets an error inside its try block
FetcherCatch(f) ==
    /\ aggPhase = "fetching"
    /\ f \in CatchingFetchers
    /\ results[f].status = "pending"
    /\ results' = [results EXCEPT ![f] = Caught]
    /\ UNCHANGED <<aggPhase, cutoffDate, aggRet, now, steps, notAgg>>

\* Promise.allSettled resolves: the rest of fetchAllSources
AggComplete ==
    /\ aggPhase = "fetching"
    /\ \A f \in Fetchers : results[f].status # "pending"
    /\ \E filtered \in deduplicateAndFilter(CollectItems(results, 1),
                                             cutoffDate) :
          aggRet' = [items |-> filtered,
                     sourceStats |-> [f \in Fetchers |->
                                        SourceResult(f, results[f])]]
    /\ aggPhase' = "done"
    /\ UNCHANGED <<cutoffDate, results, now, steps, notAgg>>

\* the instants of the aggregator runs
AggInstants == {StartTime, StartTime + Day}

TickAgg ==
    /\ now + Day \in AggInstants
    /\ now' = now + Day
    /\ UNCHANGED <<steps, aggVars, notAgg>>

IdleAgg ==
    /\ aggPhase = "idle"
    /\ cutoffDate = 0
    /\ results = [f \in Fetchers |-> Pending]
    /\ aggRet = NoResult

(***************************************************************************)
(*      Classification: batchAnalyze / analyzeNewsItem / normalizeAnalysis *)
(***************************************************************************)
KNOWN_MODELS == {<<"G", "P", "T", "-", "4">>, <<"G", "P", "T", "-", "4",
    "o">>, <<"G", "P", "T", "-", "4", ".", "5">>, <<"G", "P", "T", "-", "5">>,
    <<"G", "P", "T", "-", "5", ".", "2">>, <<"G", "P", "T", "-", "5", ".",
        "2", "-", "C", "o", "d", "e", "x">>, <<"o", "1">>, <<"o", "3">>,
        <<"o", "1", "-", "p", "r", "o">>,
    <<"o", "1", "-", "m", "i", "n", "i">>, <<"C", "l", "a", "u", "d", "e">>,
        <<"C", "l", "a", "u", "d", "e", " ", "3">>, <<"C", "l", "a", "u",
        "d", "e", " ", "3", ".", "5">>,
    <<"C", "l", "a", "u", "d", "e", " ", "4">>, <<"C", "l", "a", "u", "d",
        "e", " ", "4", ".", "5">>, <<"S", "o", "n", "n", "e", "t">>, <<"O",
        "p", "u", "s">>, <<"H", "a", "i", "k", "u">>,
    <<"S", "o", "n", "n", "e", "t", " ", "4">>, <<"S", "o", "n", "n", "e",
        "t", " ", "4", ".", "5">>, <<"O", "p", "u", "s", " ", "4">>, <<"O",
        "p", "u", "s", " ", "4", ".", "5">>,
    <<"H", "a", "i", "k", "u", " ", "4">>, <<"H", "a", "i", "k", "u", " ",
        "4", ".", "5">>, <<"G", "e", "m", "i", "n", "i">>, <<"G", "e", "m",
        "i", "n", "i", " ", "2">>,
    <<"G", "e", "m", "i", "n", "i", " ", "2", ".", "0">>, <<"G", "e", "m",
        "i", "n", "i", " ", "3">>, <<"G", "e", "m", "i", "n", "i", " ", "3",
        " ", "F", "l", "a", "s", "h">>, <<"G", "e", "m", "i", "n", "i", " ",
        "P", "r", "o">>,
    <<"G", "e", "m", "i", "n", "i", " ", "U", "l", "t", "r", "a">>, <<"G",
        "e", "m", "i", "n", "i", " ", "F", "l", "a", "s", "h">>, <<"G", "e",
        "m", "m", "a">>, <<"G", "e", "m", "m", "a", " ", "2">>,
    <<"G", "e", "m", "m", "a", " ", "3">>, <<"G", "r", "o", "k">>, <<"G",
        "r", "o", "k", " ", "2">>, <<"G", "r", "o", "k", " ", "3">>, <<"G",
        "r", "o", "k", " ", "4">>,
    <<"G", "r", "o", "k", " ", "4", ".", "1">>, <<"K", "i", "m", "i">>,
        <<"K", "i", "m", "i", " ", "K", "1">>, <<"K", "i", "m", "i", " ",
        "K", "1", ".", "5">>, <<"K", "i", "m", "i", " ", "K", "2">>,
    <<"K", "i", "m", "i", " ", "K", "2", ".", "5">>, <<"K", "i", "m", "i",
        " ", "K", "2", " ", "T", "h", "i", "n", "k", "i", "n", "g">>, <<"L",
        "l", "a", "m", "a">>, <<"L", "l", "a", "m", "a", " ", "3">>,
    <<"L", "l", "a", "m", "a", " ", "3", ".", "1">>, <<"L", "l", "a", "m",
        "a", " ", "3", ".", "2">>, <<"L", "l", "a", "m", "a", " ", "3", ".",
        "3">>, <<"L", "l", "a", "m", "a", " ", "4">>,
    <<"C", "o", "d", "e", "L", "l", "a", "m", "a">>, <<"M", "i", "s", "t",
        "r", "a", "l">>, <<"M", "i", "x", "t", "r", "a", "l">>, <<"C", "o",
        "d", "e", "s", "t", "r", "a", "l">>,
    <<"P", "i", "x", "t", "r", "a", "l">>, <<"M", "i", "s", "t", "r", "a",
        "l", " ", "L", "a", "r", "g", "e">>, <<"M", "i", "s", "t", "r", "a",
        "l", " ", "S", "m", "a", "l", "l">>, <<"Q", "w", "e", "n">>,
    <<"Q", "w", "e", "n", " ", "2">>, <<"Q", "w", "e", "n", " ", "2", ".",
        "5">>, <<"Q", "w", "Q">>, <<"D", "e", "e", "p", "S", "e", "e", "k">>,
        <<"D", "e", "e", "p", "S", "e", "e", "k", "-", "V", "3">>,
    <<"D", "e", "e", "p", "S", "e", "e", "k", "-", "R", "1">>, <<"P", "h",
        "i", "-", "4">>, <<"P", "h", "i", "-", "3">>, <<"P", "h", "i", "-",
        "3", ".", "5">>, <<"Y", "i">>,
    <<"Y", "i", "-", "L", "i", "g", "h", "t", "n", "i", "n", "g">>, <<"Y",
        "i", "-", "L", "a", "r", "g", "e">>, <<"Y", "i", "-", "3", "4",
        "B">>, <<"B", "a", "i", "c", "h", "u", "a", "n">>,
    <<"B", "a", "i", "c", "h", "u", "a", "n", " ", "2">>, <<"G", "L", "M">>,
        <<"G", "L", "M", "-", "4">>, <<"C", "h", "a", "t", "G", "L", "M">>,
        <<"E", "r", "n", "i", "e">>,
    <<"E", "r", "n", "i", "e", " ", "B", "o", "t">>, <<"C", "o", "m", "m",
        "a", "n", "d", " ", "R">>, <<"C", "o", "m", "m", "a", "n", "d", " ",
        "R", "+">>, <<"C", "o", "h", "e", "r", "e", " ", "C", "o", "m", "m",
        "a", "n", "d">>,
    <<"R", "e", "k", "a">>, <<"R", "e", "k", "a", " ", "C", "o", "r", "e">>,
        <<"R", "e", "k", "a", " ", "F", "l", "a", "s", "h">>, <<"R", "e",
        "k", "a", " ", "E", "d", "g", "e">>,
    <<"A", "I", "2", "1", " ", "J", "a", "m", "b", "a">>, <<"J", "u", "r",
        "a", "s", "s", "i", "c">>, <<"N", "e", "m", "o", "t", "r", "o",
        "n">>, <<"N", "V", "I", "D", "I", "A", " ", "N", "e", "m", "o", "t",
        "r", "o", "n">>,
    <<"C", "o", "d", "e", "x">>, <<"S", "t", "a", "r", "C", "o", "d", "e",
        "r">>, <<"S", "t", "a", "r", "C", "o", "d", "e", "r", "2">>, <<"C",
        "o", "d", "e", "G", "e", "n">>,
    <<"W", "i", "z", "a", "r", "d", "C", "o", "d", "e", "r">>, <<"M", "a",
        "g", "i", "c", "o", "d", "e", "r">>, <<"G", "P", "T", "-", "4",
        "V">>, <<"C", "l", "a", "u", "d", "e", " ", "3", " ", "V", "i", "s",
        "i", "o", "n">>,
    <<"G", "e", "m", "i", "n", "i", " ", "V", "i", "s", "i", "o", "n">>,
        <<"L", "L", "a", "V", "A">>, <<"Q", "w", "e", "n", "-", "V", "L">>,
        <<"S", "o", "r", "a">>, <<"D", "A", "L", "L", "-", "E">>,
    <<"D", "A", "L", "L", "-", "E", " ", "3">>, <<"M", "i", "d", "j", "o",
        "u", "r", "n", "e", "y">>, <<"M", "i", "d", "j", "o", "u", "r", "n",
        "e", "y", " ", "v", "6">>,
    <<"S", "t", "a", "b", "l", "e", " ", "D", "i", "f", "f", "u", "s", "i",
        "o", "n">>, <<"S", "D", "X", "L">>, <<"F", "L", "U", "X">>, <<"F",
        "l", "u", "x", ".", "1">>, <<"R", "u", "n", "w", "a", "y">>,
    <<"K", "l", "i", "n", "g">>, <<"P", "i", "k", "a">>, <<"L", "u", "m",
        "a">>, <<"H", "e", "y", "G", "e", "n">>, <<"S", "y", "n", "t", "h",
        "e", "s", "i", "a">>,
    <<"I", "m", "a", "g", "e", "n">>, <<"I", "m", "a", "g", "e", "n", " ",
        "3">>, <<"F", "i", "r", "e", "f", "l", "y">>, <<"A", "d", "o", "b",
        "e", " ", "F", "i", "r", "e", "f", "l", "y">>}

KNOWN_IDES == {<<"C", "u", "r", "s", "o", "r">>, <<"C", "u", "r", "s", "o",
    "r", " ", "I", "D", "E">>, <<"C", "u", "r", "s", "o", "r", " ", "A",
    "I">>,
    <<"C", "u", "r", "s", "o", "r", " ", "2">>, <<"W", "i", "n", "d", "s",
        "u", "r", "f">>, <<"C", "o", "d", "e", "i", "u", "m">>, <<"S", "u",
        "p", "e", "r", "m", "a", "v", "e", "n">>,
    <<"G", "i", "t", "H", "u", "b", " ", "C", "o", "p", "i", "l", "o", "t">>,
        <<"C", "o", "p", "i", "l", "o", "t">>, <<"C", "o", "p", "i", "l",
        "o", "t", " ", "C", "h", "a", "t">>,
    <<"C", "o", "p", "i", "l", "o", "t", " ", "W", "o", "r", "k", "s", "p",
        "a", "c", "e">>, <<"T", "a", "b", "n", "i", "n", "e">>, <<"R", "e",
        "p", "l", "i", "t">>, <<"R", "e", "p", "l", "i", "t", " ", "A", "g",
        "e", "n", "t">>,
    <<"G", "h", "o", "s", "t", "w", "r", "i", "t", "e", "r">>, <<"B", "o",
        "l", "t">>, <<"b", "o", "l", "t", ".", "n", "e", "w">>, <<"S", "t",
        "a", "c", "k", "B", "l", "i", "t", "z">>, <<"v", "0">>,
    <<"v", "0", ".", "d", "e", "v">>, <<"L", "o", "v", "a", "b", "l", "e">>,
        <<"D", "e", "v", "i", "n">>, <<"D", "e", "v", "o", "n">>, <<"A", "n",
        "t", "i", "g", "r", "a", "v", "i", "t", "y">>,
    <<"A", "n", "t", "i", "g", "r", "a", "v", "i", "t", "y", " ", "I", "D",
        "E">>, <<"G", "o", "o", "g", "l", "e", " ", "A", "n", "t", "i", "g",
        "r", "a", "v", "i", "t", "y">>, <<"T", "r", "a", "e">>,
    <<"T", "r", "a", "e", " ", "I", "D", "E">>, <<"M", "e", "l", "t", "y">>,
        <<"M", "e", "l", "t", "y", " ", "A", "I">>, <<"V", "o", "i", "d">>,
        <<"V", "o", "i", "d", " ", "E", "d", "i", "t", "o", "r">>,
    <<"P", "e", "a", "r", "A", "I">>, <<"P", "e", "a", "r", " ", "A", "I">>,
        <<"C", "l", "a", "u", "d", "e", " ", "C", "o", "d", "e">>, <<"A",
        "i", "d", "e", "r">>, <<"C", "o", "d", "y">>,
    <<"S", "o", "u", "r", "c", "e", "g", "r", "a", "p", "h", " ", "C", "o",
        "d", "y">>, <<"C", "o", "n", "t", "i", "n", "u", "e">>, <<"C", "o",
        "n", "t", "i", "n", "u", "e", "d", "e", "v">>,
    <<"A", "m", "a", "z", "o", "n", " ", "Q">>, <<"C", "o", "d", "e", "W",
        "h", "i", "s", "p", "e", "r", "e", "r">>, <<"A", "m", "a", "z", "o",
        "n", " ", "Q", " ", "D", "e", "v", "e", "l", "o", "p", "e", "r">>,
    <<"C", "o", "d", "i", "u", "m">>, <<"C", "o", "d", "i", "u", "m", "a",
        "t", "e">>, <<"R", "e", "f", "a", "c", "t">>, <<"R", "e", "f", "a",
        "c", "t", " ", "A", "I">>, <<"C", "l", "i", "n", "e">>,
    <<"R", "o", "o", " ", "C", "o", "d", "e">>, <<"R", "o", "o", " ", "C",
        "l", "i", "n", "e">>, <<"V", "S", " ", "C", "o", "d", "e">>, <<"V",
        "i", "s", "u", "a", "l", " ", "S", "t", "u", "d", "i", "o", " ", "C",
        "o", "d", "e">>,
    <<"V", "S", "C", "o", "d", "e">>, <<"J", "e", "t", "B", "r", "a", "i",
        "n", "s", " ", "A", "I">>, <<"I", "n", "t", "e", "l", "l", "i",
        "J">>, <<"P", "y", "C", "h", "a", "r", "m">>,
    <<"W", "e", "b", "S", "t", "o", "r", "m">>, <<"Z", "e", "d">>, <<"Z",
        "e", "d", " ", "E", "d", "i", "t", "o", "r">>, <<"N", "e", "o", "v",
        "i", "m">>, <<"V", "i", "m">>}

AI_FRAMEWORKS == {<<"L", "a", "n", "g", "C", "h", "a", "i", "n">>, <<"L",
    "a", "n", "g", "G", "r", "a", "p", "h">>, <<"L", "a", "n", "g", "S", "m",
    "i", "t", "h">>,
    <<"L", "a", "n", "g", "S", "e", "r", "v", "e">>, <<"L", "l", "a", "m",
        "a", "I", "n", "d", "e", "x">>, <<"L", "l", "a", "m", "a", "H", "u",
        "b">>, <<"L", "l", "a", "m", "a", "P", "a", "r", "s", "e">>,
    <<"L", "l", "a", "m", "a", "C", "l", "o", "u", "d">>, <<"C", "r", "e",
        "w", "A", "I">>, <<"A", "u", "t", "o", "G", "e", "n">>, <<"A", "u",
        "t", "o", "g", "e", "n", " ", "S", "t", "u", "d", "i", "o">>,
    <<"A", "G", "2">>, <<"S", "e", "m", "a", "n", "t", "i", "c", " ", "K",
        "e", "r", "n", "e", "l">>, <<"H", "a", "y", "s", "t", "a", "c",
        "k">>, <<"D", "S", "P", "y">>,
    <<"I", "n", "s", "t", "r", "u", "c", "t", "o", "r">>, <<"P", "y", "d",
        "a", "n", "t", "i", "c", " ", "A", "I">>, <<"M", "a", "r", "v", "i",
        "n">>, <<"M", "i", "r", "a", "s", "c", "o", "p", "e">>,
    <<"M", "a", "g", "e", "n", "t", "i", "c">>, <<"O", "p", "e", "n", "A",
        "I", " ", "S", "w", "a", "r", "m">>, <<"S", "w", "a", "r", "m">>,
        <<"B", "e", "e", " ", "A", "I">>, <<"B", "e", "e", "A", "I">>,
    <<"M", "C", "P">>, <<"M", "o", "d", "e", "l", " ", "C", "o", "n", "t",
        "e", "x", "t", " ", "P", "r", "o", "t", "o", "c", "o", "l">>, <<"C",
        "l", "a", "u", "d", "e", " ", "M", "C", "P">>,
    <<"F", "u", "n", "c", "t", "i", "o", "n", " ", "C", "a", "l", "l", "i",
        "n", "g">>, <<"T", "o", "o", "l", " ", "U", "s", "e">>, <<"T", "o",
        "o", "l", " ", "C", "a", "l", "l", "i", "n", "g">>, <<"D", "i", "f",
        "y">>,
    <<"F", "l", "o", "w", "i", "s", "e">>, <<"n", "8", "n", " ", "A", "I">>,
        <<"L", "a", "n", "g", "f", "l", "o", "w">>, <<"A", "g", "e", "n",
        "t", "O", "p", "s">>,
    <<"O", "p", "e", "n", "D", "e", "v", "i", "n">>, <<"S", "W", "E", "-",
        "a", "g", "e", "n", "t">>, <<"S", "W", "E", " ", "A", "g", "e", "n",
        "t">>, <<"C", "o", "g", "n", "i", "t", "i", "o", "n">>,
    <<"F", "a", "c", "t", "o", "r", "y", " ", "A", "I">>, <<"P", "o", "o",
        "l", "s", "i", "d", "e", " ", "A", "I">>, <<"R", "A", "G">>,
    <<"R", "e", "t", "r", "i", "e", "v", "a", "l", " ", "A", "u", "g", "m",
        "e", "n", "t", "e", "d">>, <<"R", "e", "t", "r", "i", "e", "v", "a",
        "l", " ", "A", "u", "g", "m", "e", "n", "t", "e", "d", " ", "G", "e",
        "n", "e", "r", "a", "t", "i", "o", "n">>,
    <<"V", "e", "c", "t", "o", "r", " ", "D", "a", "t", "a", "b", "a", "s",
        "e">>, <<"E", "m", "b", "e", "d", "d", "i", "n", "g", "s">>, <<"S",
        "e", "m", "a", "n", "t", "i", "c", " ", "S", "e", "a", "r", "c",
        "h">>,
    <<"P", "i", "n", "e", "c", "o", "n", "e">>, <<"W", "e", "a", "v", "i",
        "a", "t", "e">>, <<"C", "h", "r", "o", "m", "a">>, <<"C", "h", "r",
        "o", "m", "a", "D", "B">>, <<"Q", "d", "r", "a", "n", "t">>,
    <<"M", "i", "l", "v", "u", "s">>, <<"p", "g", "v", "e", "c", "t", "o",
        "r">>, <<"L", "a", "n", "c", "e", "D", "B">>, <<"T", "u", "r", "b",
        "o", "p", "u", "f", "f", "e", "r">>,
    <<"S", "u", "p", "a", "b", "a", "s", "e", " ", "V", "e", "c", "t", "o",
        "r">>, <<"v", "L", "L", "M">>, <<"T", "e", "n", "s", "o", "r", "R",
        "T">>, <<"T", "e", "n", "s", "o", "r", "R", "T", "-", "L", "L", "M">>,
    <<"O", "N", "N", "X">>, <<"O", "l", "l", "a", "m", "a">>, <<"L", "M",
        " ", "S", "t", "u", "d", "i", "o">>, <<"L", "o", "c", "a", "l", "A",
        "I">>, <<"G", "r", "o", "q">>,
    <<"T", "o", "g", "e", "t", "h", "e", "r", " ", "A", "I">>, <<"F", "i",
        "r", "e", "w", "o", "r", "k", "s", " ", "A", "I">>, <<"A", "n", "y",
        "s", "c", "a", "l", "e">>, <<"M", "o", "d", "a", "l">>,
    <<"R", "e", "p", "l", "i", "c", "a", "t", "e">>, <<"L", "e", "p", "t",
        "o", "n", " ", "A", "I">>, <<"R", "u", "n", "P", "o", "d">>, <<"L",
        "a", "m", "b", "d", "a", " ", "L", "a", "b", "s">>,
    <<"M", "s", "t", "y">>, <<"J", "a", "n", " ", "A", "I">>, <<"P", "r",
        "o", "m", "p", "t", " ", "E", "n", "g", "i", "n", "e", "e", "r", "i",
        "n", "g">>,
    <<"C", "h", "a", "i", "n", " ", "o", "f", " ", "T", "h", "o", "u", "g",
        "h", "t">>, <<"C", "o", "T">>, <<"F", "e", "w", "-", "s", "h", "o",
        "t">>, <<"Z", "e", "r", "o", "-", "s", "h", "o", "t">>,
    <<"R", "L", "H", "F">>, <<"D", "P", "O">>, <<"F", "i", "n", "e", "-",
        "t", "u", "n", "i", "n", "g">>, <<"L", "o", "R", "A">>, <<"Q", "L",
        "o", "R", "A">>,
    <<"A", "d", "a", "p", "t", "e", "r">>, <<"P", "r", "o", "m", "p", "t",
        "L", "a", "y", "e", "r">>, <<"P", "r", "o", "m", "p", "t", "f", "o",
        "o">>, <<"L", "a", "n", "g", "f", "u", "s", "e">>,
    <<"H", "e", "l", "i", "c", "o", "n", "e">>, <<"B", "r", "a", "i", "n",
        "t", "r", "u", "s", "t">>, <<"G", "e", "n", " ", "A", "I">>, <<"G",
        "e", "n", "e", "r", "a", "t", "i", "v", "e", " ", "A", "I">>,
    <<"A", "I", " ", "E", "n", "g", "i", "n", "e", "e", "r", "i", "n", "g">>,
        <<"M", "L", "O", "p", "s">>, <<"L", "L", "M", "O", "p", "s">>, <<"C",
        "o", "n", "t", "e", "x", "t", " ", "W", "i", "n", "d", "o", "w">>,
    <<"T", "o", "k", "e", "n", " ", "O", "p", "t", "i", "m", "i", "z", "a",
        "t", "i", "o", "n">>, <<"M", "o", "d", "e", "l", " ", "S", "e", "r",
        "v", "i", "n", "g">>, <<"A", "I", " ", "A", "r", "c", "h", "i", "t",
        "e", "c", "t", "u", "r", "e">>,
    <<"M", "u", "l", "t", "i", "-", "A", "g", "e", "n", "t">>, <<"A", "g",
        "e", "n", "t", " ", "O", "r", "c", "h", "e", "s", "t", "r", "a", "t",
        "i", "o", "n">>}

validCategories == {"model_launch", "ide_update", "ide_launch", "video_ai",
                    "image_ai", "agent", "api", "feature", "research",
                    "tutorial", "market", "other"}

validPriorities == {"breaking", "high", "normal", "low"}

\* a field the classifier's answer does not have
Undefined == "undefined"

\* `${item.title} ${item.contentSnippet}`.toLowerCase()
ItemText(item) == toLowerCase(item.title \o <<" ">> \o item.contentSnippet)

\* LIST.some(x => text.includes(x.toLowerCase()))
mentionsAny(text, list) == \E x \in list : includes(text, toLowerCase(x))

detectCategoryOf(item) ==
    LET text == ItemText(item)
        has(p) == includes(text, p)
        any(list) == includesAny(text, list)
    IN  IF mentionsAny(text, KNOWN_IDES)
        THEN IF any({<<"l", "a", "u", "n", "c", "h">>, <<"i", "n", "t", "r",
            "o", "d", "u", "c", "i", "n", "g">>, <<"a", "n", "n", "o", "u",
            "n", "c", "e">>, <<"n", "e", "w">>})
             THEN "ide_launch" ELSE "ide_update"
        ELSE IF mentionsAny(text, AI_FRAMEWORKS) THEN "agent"
        ELSE IF (mentionsAny(text, KNOWN_MODELS)
                 /\ any({<<"l", "a", "u", "n", "c", "h">>, <<"r", "e", "l",
                     "e", "a", "s", "e">>, <<"i", "n", "t", "r", "o", "d",
                     "u", "c", "i", "n", "g">>,
                         <<"a", "n", "n", "o", "u", "n", "c", "e">>}))
        THEN "model_launch"
        ELSE IF (has(<<"v", "i", "d", "e", "o">>)
                 /\ any({<<"g", "e", "n", "e", "r", "a", "t", "i", "o",
                     "n">>, <<"s", "o", "r", "a">>, <<"r", "u", "n", "w",
                     "a", "y">>}))
        THEN "video_ai"
        ELSE IF (any({<<"i", "m", "a", "g", "e">>, <<"d", "i", "f", "f", "u",
            "s", "i", "o", "n">>}) /\ has(<<"g", "e", "n", "e", "r", "a",
            "t">>))
        THEN "image_ai"
        ELSE IF any({<<"a", "p", "i">>, <<"e", "n", "d", "p", "o", "i", "n",
            "t">>, <<"s", "d", "k">>}) THEN "api"
        ELSE IF any({<<"p", "a", "p", "e", "r">>, <<"a", "r", "x", "i",
            "v">>, <<"b", "e", "n", "c", "h", "m", "a", "r",
            "k">>}) THEN "research"
        ELSE IF any({<<"h", "o", "w", " ", "t", "o">>, <<"t", "u", "t", "o",
            "r", "i", "a", "l">>, <<"g", "u", "i", "d", "e">>, <<"b", "u",
            "i", "l", "d", "i", "n", "g">>})
        THEN "tutorial"
        ELSE IF any({<<"f", "u", "n", "d", "i", "n", "g">>, <<"a", "c", "q",
            "u", "i", "s", "i", "t", "i", "o", "n">>, <<"m", "i", "l", "l",
            "i", "o", "n">>, <<"b", "i", "l", "l", "i", "o", "n">>})
        THEN "market"
        ELSE "feature"

breakingKeywords ==
    {<<"g", "p", "t", "-", "5">>, <<"g", "p", "t", "5">>, <<"g", "p", "t",
        "-", "5", ".", "2">>, <<"c", "l", "a", "u", "d", "e", " ", "4">>,
        <<"c", "l", "a", "u", "d", "e", "4">>,
     <<"c", "l", "a", "u", "d", "e", " ", "4", ".", "5">>, <<"o", "p", "u",
         "s", " ", "4", ".", "5">>, <<"g", "e", "m", "i", "n", "i", " ",
         "3">>, <<"g", "e", "m", "i", "n", "i", " ", "2">>, <<"l", "l", "a",
         "m", "a", " ", "4">>,
     <<"g", "r", "o", "k", " ", "4">>, <<"g", "r", "o", "k", " ", "3">>,
         <<"k", "i", "m", "i", " ", "k", "2">>, <<"k", "i", "m", "i", " ",
         "k", "2", ".", "5">>, <<"d", "e", "e", "p", "s", "e", "e", "k", "-",
         "r", "1">>,
     <<"y", "i", "-", "l", "i", "g", "h", "t", "n", "i", "n", "g">>, <<"c",
         "u", "r", "s", "o", "r", " ", "2">>, <<"c", "u", "r", "s", "o",
         "r">>, <<"w", "i", "n", "d", "s", "u", "r", "f">>, <<"c", "o", "p",
         "i", "l", "o", "t">>,
     <<"a", "n", "t", "i", "g", "r", "a", "v", "i", "t", "y">>, <<"d", "e",
         "v", "i", "n">>, <<"c", "l", "i", "n", "e">>, <<"i", "n", "t", "r",
         "o", "d", "u", "c", "i", "n", "g">>, <<"a", "n", "n", "o", "u", "n",
         "c", "i", "n", "g">>,
     <<"l", "a", "u", "n", "c", "h">>, <<"r", "e", "l", "e", "a", "s", "e">>,
         <<"n", "o", "w", " ", "a", "v", "a", "i", "l", "a", "b", "l", "e">>}

hotFrameworks ==
    {<<"l", "a", "n", "g", "g", "r", "a", "p", "h">>, <<"m", "c", "p">>,
        <<"m", "o", "d", "e", "l", " ", "c", "o", "n", "t", "e", "x", "t",
        " ", "p", "r", "o", "t", "o", "c", "o", "l">>, <<"c", "r", "e", "w",
        "a", "i">>,
     <<"o", "p", "e", "n", "a", "i", " ", "s", "w", "a", "r", "m">>, <<"s",
         "w", "e", "-", "a", "g", "e", "n", "t">>, <<"o", "p", "e", "n", "h",
         "a", "n", "d", "s">>}

chineseModels ==
    {<<"k", "i", "m", "i">>, <<"d", "e", "e", "p", "s", "e", "e", "k">>,
        <<"q", "w", "e", "n">>, <<"y", "i", "-">>, <<"b", "a", "i", "c", "h",
        "u", "a", "n">>, <<"g", "l", "m">>,
     <<"m", "o", "o", "n", "s", "h", "o", "t">>}

detectPriorityOf(item, category) ==
    LET text == ItemText(item)
    IN  IF (includesAny(text, breakingKeywords)
            /\ category \in {"model_launch", "ide_launch", "ide_update"})
        THEN "breaking"
        ELSE IF category \in {"ide_update", "ide_launch", "agent"} THEN "high"
        ELSE IF mentionsAny(text, KNOWN_IDES) THEN "high"
        ELSE IF includesAny(text, hotFrameworks) THEN "high"
        ELSE IF includesAny(text, chineseModels) THEN "high"
        ELSE IF includesAny(text, {<<"o", "p", "i", "n", "i", "o", "n">>,
            <<"t", "h", "o", "u", "g", "h", "t", "s">>, <<"p", "e", "r", "s",
            "p", "e", "c", "t", "i", "v", "e">>})
        THEN "low"
        ELSE "normal"

\* The heuristics of each catalogue item, computed once.
detectCategory == [id \in ItemIds |-> detectCategoryOf(Catalogue[id])]

detectPriority ==
    [id \in ItemIds |->
        [c \in validCategories |-> detectPriorityOf(Catalogue[id], c)]]

mentionsKnownIDE ==
    [id \in ItemIds |-> mentionsAny(ItemText(Catalogue[id]), KNOWN_IDES)]

\* result.relevanceScore: a number, or a value arithmetic turns into NaN;
\* 0 also stands for an absent score (both are falsy)
Num(v) == [isNumber |-> TRUE, value |-> v]

NotNum == [isNumber |-> FALSE, value |-> 0]

\* relevanceScore NaN in an analysis
NaNScore == -1

DEFAULT_RELEVANCE == 5

\* Math.min(10, Math.max(1, result.relevanceScore || 5))
clampRelevance(raw) ==
    IF ~raw.isNumber THEN NaNScore
    ELSE IF raw.value = 0 THEN DEFAULT_RELEVANCE
    ELSE Min(10, Max(1, raw.value))

\* The fields of an analysis that decide what is returned: technicalImpact
\* is set by normalizeAnalysis only.
Analysis(category, priority, relevanceScore, technicalImpact) ==
    [category |-> category, priority |-> priority,
     relevanceScore |-> relevanceScore, technicalImpact |-> technicalImpact,
     isBreaking |-> (priority = "breaking")]

NoAnalysis == Analysis(Undefined, Undefined, 0, FALSE)

\* normalizeAnalysis without the validation of category and priority
normalizeAnalysis_NoValidation(result, id) ==
    LET category == result.category
        boosted == IF /\ Catalogue[id].sourceTier = "official"
                      /\ category \in {"model_launch", "ide_launch"}
                   THEN "breaking" ELSE result.priority
        priority == IF mentionsKnownIDE[id] /\ boosted = "normal"
                    THEN "high" ELSE boosted
    IN  Analysis(category, priority, clampRelevance(result.relevanceScore),
                 TRUE)

\* normalizeAnalysis(result, item)
normalizeAnalysis(result, id) ==
    LET category == IF result.category \in validCategories
                    THEN result.category ELSE detectCategory[id]
        detected == IF result.priority \in validPriorities
                    THEN result.priority ELSE detectPriority[id][category]
        boosted == IF /\ Catalogue[id].sourceTier = "official"
                      /\ category \in {"model_launch", "ide_launch"}
                   THEN "breaking" ELSE detected
        priority == IF mentionsKnownIDE[id] /\ boosted = "normal"
                    THEN "high" ELSE boosted
    IN  Analysis(category, priority, clampRelevance(result.relevanceScore),
                 TRUE)

\* createFallbackAnalysis(item)
createFallbackAnalysis(id) ==
    LET category == detectCategory[id]
    IN  Analysis(category, detectPriority[id][category], DEFAULT_RELEVANCE,
                 FALSE)

\* ---- the analysis cache: the AdvancedCache with CACHE_TTL.analysis ----
CACHE_TTL_analysis == 7 * 24 * 60 * 60 * 1000

TheCache == [mem |-> memoryCache, file |-> cacheFile, loaded |-> loaded]

\* analysisCache.get(key): whether an analysis is returned, the analysis, and
\* the cache as get() leaves it
analysisGet(c, key, t) ==
    LET mem == LoadedMap(c.mem, c.file, c.loaded, t)
        in  == [c EXCEPT !.mem = mem, !.loaded = TRUE]
    IN  IF key \notin DOMAIN mem
        THEN [hit |-> FALSE, value |-> NoAnalysis, cache |-> in]
        ELSE IF GetExpired(mem[key], t)
        THEN [hit |-> FALSE, value |-> NoAnalysis,
              cache |-> [in EXCEPT !.mem = MapDelete(mem, key)]]
        ELSE [hit |-> TRUE, value |-> mem[key].data, cache |-> in]

\* analysisCache.set(key, analysis, undefined, source), save() included
analysisSet(c, key, analysis, t) ==
    LET mem == MapSet(LoadedMap(c.mem, c.file, c.loaded, t), key,
                      [data |-> analysis, timestamp |-> t,
                       expiresAt |-> t + CACHE_TTL_analysis])
    IN  [mem |-> mem, file |-> mem, loaded |-> TRUE]

\* ---- what the external classifier can answer ----
ApiResult(category, priority, relevanceScore) ==
    [category |-> category, priority |-> priority,
     relevanceScore |-> relevanceScore]

\* One answer with valid fields, one with a category and a relevance score
\* out of range, one with a missing category, a priority outside the set
\* and a relevance score that is not a number.
ApiResults ==
    {ApiResult("model_launch", "high", Num(7)),
     ApiResult("bogus", "breaking", Num(12)),
     ApiResult(Undefined, "urgent", NotNum)}

\* "result": a JSON object; "noContent": no content, or content that does
\* not parse; "badResult": JSON on which normalizeAnalysis throws (null, a
\* summary that is not a string); "error": the request fails with a status
ApiOutcomes ==
    {[kind |-> "result", result |-> r, status |-> 0] : r \in ApiResults}
    \cup {[kind |-> k, result |-> ApiResult(Undefined, Undefined, Num(0)),
           status |-> 0] : k \in {"noContent", "badResult"}}
    \cup {[kind |-> "error", result |-> ApiResult(Undefined, Undefined, Num(0)),
           status |-> c] : c \in ErrorCodes}

MAX_RETRIES == 2

RETRY_DELAY == 500

ANALYSIS_TIMEOUT == 5000

CHUNK_DELAY == 500

\* ---- analyzeNewsItem ----
\* The state the calls of analyzeNewsItem work on.
Work == [status |-> keyStatus, index |-> currentIndex, cache |-> TheCache,
         calls |-> calls, races |-> races, n |-> steps]

\* The promise of analyzeNewsItem resolves: it wins the race of its item if
\* that race is still open (live: the call belongs to the current chunk).
Resolve(w, id, analysis, live) ==
    IF live /\ id \in DOMAIN w.races /\ ~w.races[id].settled
    THEN [w EXCEPT !.races[id] = [settled |-> TRUE, analysis |-> analysis]]
    ELSE w

\* analyzeNewsItem(item, retryCount) up to the request: the cached analysis,
\* the fallback when the pool gives no key, or a request in flight
analyzeNewsItem(w, id, retryCount, live) ==
    LET g == analysisGet(w.cache, id, now)
        r == getNextKey(keys, w.status, w.index, now)
    IN  IF g.hit THEN Resolve([w EXCEPT !.cache = g.cache], id, g.value, live)
        ELSE IF r.key = Null
        THEN Resolve([w EXCEPT !.cache = g.cache, !.status = r.status,
                               !.index = r.index],
                     id, createFallbackAnalysis(id), live)
        ELSE [w EXCEPT !.cache = g.cache, !.status = r.status,
                       !.index = r.index, !.n = w.n + 1,
                       !.calls = (w.n + 1) :>
                                   [id |-> id, key |-> r.key,
                                    retryCount |-> retryCount,
                                    state |-> "inflight", wakeAt |-> 0,
                                    live |-> live]
                                 @@ w.calls]

WithoutCall(w, c) ==
    [w EXCEPT !.calls = [k \in (DOMAIN w.calls) \ {c} |-> w.calls[k]]]

\* The request of call c is answered: the rest of the try block, or the
\* catch block, of analyzeNewsItem.
answerCall(w, c, outcome) ==
    LET call == w.calls[c]
        failed(st) == Resolve([WithoutCall(w, c) EXCEPT !.status = st],
                              call.id, createFallbackAnalysis(call.id),
                              call.live)
    IN  IF outcome.kind = "result"
        THEN LET analysis == normalizeAnalysis(outcome.result, call.id)
             IN  Resolve([WithoutCall(w, c) EXCEPT
                             !.status = reportSuccess(w.status, call.key),
                             !.cache = analysisSet(w.cache, call.id,
                                                   analysis, now)],
                         call.id, analysis, call.live)
        ELSE IF outcome.kind = "noContent"
        THEN failed(reportError(w.status, call.key, 0, now))
        ELSE IF outcome.kind = "badResult"
        THEN failed(reportError(reportSuccess(w.status, call.key),
                                call.key, 0, now))
        ELSE IF /\ outcome.status = RATE_LIMIT_STATUS
                /\ call.retryCount < MAX_RETRIES
        THEN [w EXCEPT !.status = reportError(w.status, call.key,
                                              outcome.status, now),
                       !.calls[c].state = "backoff",
                       !.calls[c].wakeAt =
                           now + RETRY_DELAY * (call.retryCount + 1)]
        ELSE failed(reportError(w.status, call.key, outcome.status, now))

\* ---- batchAnalyze ----
\* { ...item, ...analysis }
Analyzed(id, analysis) ==
    [id |-> id, category |-> analysis.category,
     priority |-> analysis.priority,
     relevanceScore |-> analysis.relevanceScore,
     technicalImpact |-> analysis.technicalImpact,
     isBreaking |-> analysis.isBreaking]

MAX_CONCURRENCY == 3

KEYS_PER_REQUEST == 4

\* Math.min(3, Math.max(1, Math.floor(availableKeys / 4)))
Concurrency(availableKeys) ==
    Min(MAX_CONCURRENCY, Max(1, availableKeys \div KEYS_PER_REQUEST))

\* The pre-filter loop: analysisCache.get for each item in turn.
RECURSIVE preFilter(_, _, _, _)
preFilter(items, c, cached, toProcess) ==
    IF items = <<>>
    THEN [cache |-> c, cachedResults |-> cached, itemsToProcess |-> toProcess]
    ELSE LET g == analysisGet(c, Head(items), now)
         IN  IF g.hit
             THEN preFilter(Tail(items), g.cache,
                            Append(cached, Analyzed(Head(items), g.value)),
                            toProcess)
             ELSE preFilter(Tail(items), g.cache, cached,
                            Append(toProcess, Head(items)))

priorityOrder == [p \in validPriorities |->
                     CASE p = "breaking" -> 0 [] p = "high" -> 1
                       [] p = "normal" -> 2 [] p = "low" -> 3]

\* a.relevanceScore || 0
sortScore(a) == IF a.relevanceScore = NaNScore THEN 0 ELSE a.relevanceScore

\* The comparator of the final sort: negative when a goes first.  A
\* priority outside the table has rank undefined: the difference with a
\* number is NaN, which sort reads as 0.
compareAnalyzed(a, b) ==
    LET known(x) == x.priority \in validPriorities
    IN  IF known(a) /\ known(b) /\ priorityOrder[a.priority] # priorityOrder[b.priority]
        THEN priorityOrder[a.priority] - priorityOrder[b.priority]
        ELSE IF known(a) # known(b) THEN 0
        ELSE IF sortScore(a) # sortScore(b) THEN sortScore(b) - sortScore(a)
        ELSE pubDate[b.id].time - pubDate[a.id].time

RECURSIVE insertAnalyzed(_, _)
insertAnalyzed(sorted, a) ==
    IF sorted = <<>> THEN <<a>>
    ELSE IF compareAnalyzed(sorted[Len(sorted)], a) <= 0
    THEN Append(sorted, a)
    ELSE Append(insertAnalyzed(SubSeq(sorted, 1, Len(sorted) - 1), a),
                sorted[Len(sorted)])

\* allResults.sort(...): stable
RECURSIVE sortAnalyzed(_)
sortAnalyzed(list) ==
    IF list = <<>> THEN <<>>
    ELSE insertAnalyzed(sortAnalyzed(SubSeq(list, 1, Len(list) - 1)),
                        list[Len(list)])

MIN_RELEVANCE == 6

MIN_RELEVANCE_HIGH == 5

\* The filter with one minimum relevance score
keepAnalyzed_OneFloor(a) ==
    \/ a.priority = "breaking"
    \/ a.priority = "high" /\ Catalogue[a.id].sourceTier = "official"
    \/ a.relevanceScore # NaNScore /\ a.relevanceScore >= MIN_RELEVANCE

\* the predicate of the strict filter
keepAnalyzed(a) ==
    \/ a.priority = "breaking"
    \/ a.priority = "high" /\ Catalogue[a.id].sourceTier = "official"
    \/ a.relevanceScore # NaNScore /\ a.relevanceScore >= MIN_RELEVANCE
    \/ /\ a.priority = "high"
       /\ a.relevanceScore # NaNScore
       /\ a.relevanceScore >= MIN_RELEVANCE_HIGH

\* [...cachedResults, ...results], sorted and filtered
finalResults(cached, new) == SelectSeq(sortAnalyzed(cached \o new), keepAnalyzed)

\* ---- the pass of batchAnalyze as a process ----
NoRace == [settled |-> FALSE, analysis |-> NoAnalysis]

NoRaces == [id \in {} |-> NoRace]

NoCalls == [c \in {} |-> [id |-> Null, key |-> Null, retryCount |-> 0,
                          state |-> "inflight", wakeAt |-> 0, live |-> FALSE]]

IdleBatch == [phase |-> "idle", items |-> <<>>, itemsToProcess |-> <<>>,
              cachedResults |-> <<>>, results |-> <<>>, i |-> 0,
              concurrency |-> 1, deadline |-> 0]

MaxApiCalls == 3

\* The items a pass is given: catalogue items with a publication date, in
\* lists of at most two.
ClassifyItems == {"oc1", "ph3", "cu1"}

ClassifyInputs ==
    {<<>>} \cup {<<a>> : a \in ClassifyItems}
    \cup {p \in ClassifyItems \X ClassifyItems : p[1] # p[2]}

\* itemsToProcess.slice(i, i + concurrency)
Chunk(b) ==
    SubSeq(b.itemsToProcess, b.i + 1,
           Min(b.i + b.concurrency, Len(b.itemsToProcess)))

\* chunk.map(...): analyzeNewsItem is started for each item of the chunk in
\* turn
RECURSIVE analyzeChunk(_, _)
analyzeChunk(w, chunk) ==
    IF chunk = <<>> THEN w
    ELSE analyzeChunk(analyzeNewsItem(w, Head(chunk), 0, TRUE), Tail(chunk))

\* what the operations of the classifier store
Commit(w) ==
    /\ w.n <= MaxApiCalls
    /\ steps' = w.n
    /\ keyStatus' = w.status
    /\ currentIndex' = w.index
    /\ memoryCache' = w.cache.mem
    /\ cacheFile' = w.cache.file
    /\ loaded' = w.cache.loaded
    /\ calls' = w.calls
    /\ races' = w.races
    /\ UNCHANGED <<keys, poolRet, cacheRet, schedVars, aggVars, routeVars>>

\* StartChunk with a timer of twice the length
StartChunk_LongTimer(b, w) ==
    LET chunk == Chunk(b)
        open == [w EXCEPT !.races = [id \in SeqRange(chunk) |-> NoRace]]
    IN  /\ batch' = [b EXCEPT !.phase = "running",
                              !.deadline = now + 2 * ANALYSIS_TIMEOUT]
        /\ Commit(analyzeChunk(open, chunk))
        /\ UNCHANGED <<now, batchRet>>

\* One iteration of the chunk loop begins: the races of the chunk are
\* opened, each with its 5 s timer.
StartChunk(b, w) ==
    LET chunk == Chunk(b)
        open == [w EXCEPT !.races = [id \in SeqRange(chunk) |-> NoRace]]
    IN  /\ batch' = [b EXCEPT !.phase = "running",
                              !.deadline = now + ANALYSIS_TIMEOUT]
        /\ Commit(analyzeChunk(open, chunk))
        /\ UNCHANGED <<now, batchRet>>

\* batchAnalyze(items) from its first line: the pre-filter, then the first
\* chunk, or the result at once when every item has a cached analysis.
startPass(items) ==
    LET pf == preFilter(items, TheCache, <<>>, <<>>)
        b  == [phase |-> "running", items |-> items,
               itemsToProcess |-> pf.itemsToProcess,
               cachedResults |-> pf.cachedResults, results |-> <<>>,
               i |-> 0, concurrency |-> Concurrency(Len(keys)),
               deadline |-> 0]
        w  == [Work EXCEPT !.cache = pf.cache]
    IN  IF pf.itemsToProcess = <<>>
        THEN /\ batch' = [b EXCEPT !.phase = "done"]
             /\ batchRet' = finalResults(pf.cachedResults, <<>>)
             /\ Commit(w)
             /\ UNCHANGED now
        ELSE StartChunk(b, w)

\* batchAnalyze(items) is called.
BatchAnalyze(items) ==
    /\ batch.phase = "idle"
    /\ startPass(items)

\* how long after the start a further pass may begin
LaterPasses == CHUNK_DELAY

\* batchAnalyze(items) is called again after a pass has returned.
BatchAnalyzeAgain(items) ==
    /\ batch.phase = "done"
    /\ now <= StartTime + LaterPasses
    /\ startPass(items)

\* the lists given to passes that follow each other
PassInputs == {<<"ph3">>, <<"oc1", "ph3">>, <<"vs1">>}

\* The request of call c is answered.
ApiRespond(c, outcome) ==
    /\ c \in DOMAIN calls
    /\ calls[c].state = "inflight"
    /\ Commit(answerCall(Work, c, outcome))
    /\ UNCHANGED <<now, batch, batchRet>>

\* The delay before the retry of call c is over.
RetryCall(c) ==
    /\ c \in DOMAIN calls
    /\ calls[c].state = "backoff"
    /\ now >= calls[c].wakeAt
    /\ Commit(analyzeNewsItem(WithoutCall(Work, c), calls[c].id,
                              calls[c].retryCount + 1, calls[c].live))
    /\ UNCHANGED <<now, batch, batchRet>>

\* The 5 s timer of an item fires before its analysis has resolved.
RaceTimeout(id) ==
    /\ batch.phase = "running"
    /\ id \in DOMAIN races
    /\ ~races[id].settled
    /\ now >= batch.deadline
    /\ Commit(Resolve(Work, id, createFallbackAnalysis(id), TRUE))
    /\ UNCHANGED <<now, batch, batchRet>>

RECURSIVE chunkResults(_)
chunkResults(chunk) ==
    IF chunk = <<>> THEN <<>>
    ELSE <<Analyzed(Head(chunk), races[Head(chunk)].analysis)>>
         \o chunkResults(Tail(chunk))

\* Promise.allSettled of the chunk resolves: the results are pushed; then
\* the delay before the next chunk, or the sort, the filter and the return.
\* Requests still in flight go on without a reader.
CompleteChunk ==
    LET new  == batch.results \o chunkResults(Chunk(batch))
        more == batch.i + batch.concurrency < Len(batch.itemsToProcess)
        w    == [Work EXCEPT !.races = NoRaces,
                             !.calls = [c \in DOMAIN calls |->
                                          [calls[c] EXCEPT !.live = FALSE]]]
    IN  /\ batch.phase = "running"
        /\ \A id \in DOMAIN races : races[id].settled
        /\ IF more
           THEN /\ batch' = [batch EXCEPT !.phase = "delay", !.results = new,
                                          !.deadline = now + CHUNK_DELAY]
                /\ UNCHANGED batchRet
           ELSE /\ batch' = [batch EXCEPT !.phase = "done", !.results = new]
                /\ batchRet' = finalResults(batch.cachedResults, new)
        /\ Commit(w)
        /\ UNCHANGED now

\* The delay between two chunks is over.
NextChunk ==
    /\ batch.phase = "delay"
    /\ now >= batch.deadline
    /\ StartChunk([batch EXCEPT !.i = batch.i + batch.concurrency], Work)

\* The timers that are set: the timer of the chunk or of the delay, and
\* the delays of the retries.
Deadlines ==
    (IF batch.phase \in {"running", "delay"} THEN {batch.deadline} ELSE {})
    \cup {calls[c].wakeAt : c \in {k \in DOMAIN calls :
                                      calls[k].state = "backoff"}}

\* Time passes until the next timer is due.
AdvanceClassify ==
    /\ \E d \in Deadlines :
          /\ d > now
          /\ \A e \in Deadlines : e > now => d <= e
          /\ now' = d
    /\ UNCHANGED <<steps, cacheVars, poolVars, schedVars, aggVars,
                   classifyVars, routeVars>>

IdleClassify ==
    /\ batch = IdleBatch
    /\ calls = NoCalls
    /\ races = NoRaces
    /\ batchRet = <<>>

ClassifyKeyCounts == {0, 1, 8}

\* The pool as initializeKeys() leaves it, with no, one or eight keys.
InitClassifyPool ==
    /\ \E n \in ClassifyKeyCounts :
          /\ keys = SubSeq(KeyNames, 1, n)
          /\ currentIndex = 0
    /\ keyStatus = [k \in SeqRange(keys) |-> NewKeyStatus]
    /\ poolRet = [op |-> "none", key |-> Null, at |-> 0, fallback |-> FALSE]

\* The analysis cache when the process starts: the file is empty, or holds
\* one analysis stored by an earlier process, a day or a full TTL ago.
StoredEntry(analysis, t) ==
    [data |-> analysis, timestamp |-> t, expiresAt |-> t + CACHE_TTL_analysis]

ClassifyCacheFiles ==
    {EmptyMap}
    \cup {id :> StoredEntry(normalizeAnalysis(r, id), StartTime - age) :
             id \in ClassifyItems, r \in ApiResults,
             age \in {Day, CACHE_TTL_analysis}}

InitClassifyCache ==
    /\ memoryCache = EmptyMap
    /\ cacheFile \in ClassifyCacheFiles
    /\ loaded = FALSE
    /\ cacheRet = [op |-> "none", key |-> Null, value |-> Null,
                   entry |-> NoEntry, at |-> 0]

(***************************************************************************)
(*          The refresh entry point: GET of app/api/news/route.ts          *)
(*                                                                         *)
(* One request, and a second one during it.  The calls of GET on the file  *)
(* system (cache, scheduler state) answer at once; a failing file system   *)
(* is the input                                                            *)
(* diskOk = FALSE of the request: load() and init() then read nothing and  *)
(* save() and saveState() write nothing, each catching its own error.  The *)
(* two calls that wait on the network, fetchAllSources and batchAnalyze,   *)
(* are raced against the timers of withTimeout.                            *)
(***************************************************************************)
NEWS_KEY == "latest"

FETCH_TIMEOUT == 20000

ANALYZE_TIMEOUT == 15000

QUICK_CACHE_AGE == 30 * 60 * 1000

TOP_NEWS == 15

HTTP_OK == 200

HTTP_ACCEPTED == 202

\* what get() returns: null (hit is FALSE) or the cached list
CacheMiss(c) == [hit |-> FALSE, value |-> <<>>, cache |-> c]

\* getCachedNews(): newsCache.get('latest'), and the cache as it leaves it
getCachedNews(c, t, diskOk) ==
    LET mem == LoadedMap(c.mem, IF diskOk THEN c.file ELSE EmptyMap,
                         c.loaded, t)
        in  == [c EXCEPT !.mem = mem, !.loaded = TRUE]
    IN  IF NEWS_KEY \notin DOMAIN mem THEN CacheMiss(in)
        ELSE IF GetExpired(mem[NEWS_KEY], t)
        THEN CacheMiss([in EXCEPT !.mem = MapDelete(mem, NEWS_KEY)])
        ELSE [hit |-> TRUE, value |-> mem[NEWS_KEY].data, cache |-> in]

\* setCachedNews(news): newsCache.set('latest', news), save() included
setCachedNews(c, news, t, diskOk) ==
    LET mem == MapSet(LoadedMap(c.mem, IF diskOk THEN c.file ELSE EmptyMap,
                                c.loaded, t),
                      NEWS_KEY,
                      [data |-> news, timestamp |-> t,
                       expiresAt |-> t + EffectiveTTL(NoTTL)])
    IN  [mem |-> mem, file |-> IF diskOk THEN mem ELSE c.file,
         loaded |-> TRUE]

\* cleanupAllCaches(), on the news cache: newsCache.cleanup()
cleanupAllCaches(c, t, diskOk) ==
    LET mem  == LoadedMap(c.mem, IF diskOk THEN c.file ELSE EmptyMap,
                          c.loaded, t)
        kept == {k \in DOMAIN mem : ~(mem[k].expiresAt < t)}
        left == [k \in kept |-> mem[k]]
    IN  [mem |-> left,
         file |-> IF diskOk /\ kept # DOMAIN mem THEN left ELSE c.file,
         loaded |-> TRUE]

\* scheduler.init() of a request
routeInit(st, file, isInit, t, diskOk) ==
    initState(st, IF diskOk THEN file ELSE NoFile, isInit, t)

\* saveState()
saveState(file, st, diskOk) == IF diskOk THEN SavedFile(st) ELSE file

\* ---- responses ----
Response(kind, items, fromCache, source, status) ==
    [kind |-> kind, items |-> items, fromCache |-> fromCache,
     source |-> source, status |-> status]

NoResponse == Response("none", <<>>, FALSE, Null, 0)

\* createResponse(items, fromCache, source)
createResponse(items, fromCache, source) ==
    Response("news", items, fromCache, source, HTTP_OK)

\* NextResponse.json({ error, items: [] }, { status: 200 })
ErrorResponse(error) == Response("error", <<>>, FALSE, error, HTTP_OK)

\* { error: 'Processing in progress, please wait' }, status 202
ProcessingResponse ==
    Response("processing", <<>>, FALSE, "Processing in progress", HTTP_ACCEPTED)

\* the answers to ?cleanup_cache=true and ?status=true
CleanedResponse == Response("cleaned", <<>>, FALSE, Null, HTTP_OK)

StatusResponse == Response("status", <<>>, FALSE, Null, HTTP_OK)

\* an exception that leaves GET: the request has no response
Exception == Response("exception", <<>>, FALSE, Null, 0)

ResponseKinds == {"news", "error", "processing", "cleaned", "status"}

\* ---- where GET goes next ----
\* a return statement; createResponse reads isCurrentlyProcessing(), which
\* clears a stuck processing flag
Done(response, c, st, file, t) ==
    [next |-> "respond", response |-> response, cache |-> c,
     state |-> IF response.kind = "news"
               THEN isCurrentlyProcessing(st, t).state ELSE st,
     file |-> file, topNews |-> <<>>, action |-> Null]

Go(next, c, st, file, topNews) ==
    [next |-> next, response |-> NoResponse, cache |-> c, state |-> st,
     file |-> file, topNews |-> topNews, action |-> Null]

\* Date.now() - new Date(quickCache[0].pubDate).getTime() < 30 minutes;
\* the difference with an Invalid Date is NaN and the test is false
QuickCacheFresh(list, t) ==
    /\ pubDate[list[1].id].valid
    /\ t - pubDate[list[1].id].time < QUICK_CACHE_AGE

\* GET from its first line to the call of fetchAllSources
BeforeFetch(kind, forceRefresh, diskOk, c, st, file, isInit, t) ==
    LET st0     == routeInit(st, file, isInit, t, diskOk)
        quick   == getCachedNews(c, t, diskOk)
        action  == IF forceRefresh THEN "fetch_and_analyze"
                   ELSE DecideAction(st0, t)
        st1     == IF forceRefresh THEN st0
                   ELSE isCurrentlyProcessing(st0, t).state
        cached  == getCachedNews(quick.cache, t, diskOk)
        started == startAnalysis(st1, t)
    IN  IF kind = "cleanup"
        THEN Done(CleanedResponse, cleanupAllCaches(c, t, diskOk), st0, file, t)
        ELSE IF kind = "status"
        THEN Done(StatusResponse, c, isCurrentlyProcessing(st0, t).state,
                  file, t)
        ELSE IF (quick.hit /\ quick.value # <<>> /\ ~forceRefresh)
                /\ QuickCacheFresh(quick.value, t)
        THEN Done(createResponse(quick.value, TRUE, "quick_cache"),
                  quick.cache, st0, file, t)
        ELSE IF action = "wait"
        THEN Done(IF cached.hit
                  THEN createResponse(cached.value, TRUE, "wait")
                  ELSE ProcessingResponse,
                  cached.cache, st1, file, t)
        ELSE IF action = "serve_cache" /\ cached.hit /\ cached.value # <<>>
        THEN Done(createResponse(cached.value, TRUE, "cache"),
                  cached.cache, st1, file, t)
        ELSE [Go("fetch",
                 IF action = "serve_cache" THEN cached.cache ELSE quick.cache,
                 started, saveState(file, started, diskOk), <<>>)
                EXCEPT !.action = action]

\* The outer catch without its last-resort response: the error leaves GET
outerCatch_Rethrow(c, t, diskOk) ==
    LET errorCache == getCachedNews(c, t, diskOk)
    IN  [response |-> IF errorCache.hit /\ errorCache.value # <<>>
                      THEN createResponse(errorCache.value, TRUE,
                                          "error_fallback")
                      ELSE Exception,
         cache |-> errorCache.cache]

\* The outer catch: the cached news, or the last-resort response
outerCatch(c, t, diskOk) ==
    LET errorCache == getCachedNews(c, t, diskOk)
    IN  [response |-> IF errorCache.hit /\ errorCache.value # <<>>
                      THEN createResponse(errorCache.value, TRUE,
                                          "error_fallback")
                      ELSE ErrorResponse("Failed to fetch news"),
         cache |-> errorCache.cache]

\* The inner catch: failProcessing(), the cached news, or the error is
\* thrown again and the outer catch answers
innerCatch(diskOk, c, st, file, t) ==
    LET failed     == failProcessing(st)
        errorCache == getCachedNews(c, t, diskOk)
        outer      == outerCatch(errorCache.cache, t, diskOk)
    IN  IF errorCache.hit /\ errorCache.value # <<>>
        THEN Done(createResponse(errorCache.value, TRUE, "error_fallback"),
                  errorCache.cache, failed, saveState(file, failed, diskOk), t)
        ELSE Done(outer.response, outer.cache, failed,
                  saveState(file, failed, diskOk), t)

\* GET from the result of fetchAllSources to the call of batchAnalyze
AfterFetch(rawNews, diskOk, c, st, file, t) ==
    LET fetched  == completeRSSFetch(st, t)
        failed   == failProcessing(fetched)
        fallback == getCachedNews(c, t, diskOk)
    IN  IF rawNews = <<>>
        THEN Done(IF fallback.hit /\ fallback.value # <<>>
                  THEN createResponse(fallback.value, TRUE, "fallback")
                  ELSE ErrorResponse("No news available"),
                  fallback.cache, failed, saveState(file, failed, diskOk), t)
        ELSE Go("analyze", c, fetched, saveState(file, fetched, diskOk),
                sliceTo(rawNews, TOP_NEWS))

\* GET from the result of batchAnalyze to its return
AfterAnalysis(analyzedNews, diskOk, c, st, file, t) ==
    LET completed == completeAnalysis(st, t)
    IN  Done(createResponse(analyzedNews, FALSE, "fresh"),
             cleanupAllCaches(setCachedNews(c, analyzedNews, t, diskOk),
                              t, diskOk),
             completed, saveState(file, completed, diskOk), t)

\* ---- batchAnalyze of lib/groq.ts ----
\* what the classifier answers while the requests are served
RouteApiResults == {ApiResult("bogus", "breaking", Num(12))}

\* what analyzeNewsItem can return for an item: the normalized answer of
\* the classifier or the heuristic analysis
ItemAnalyses(id) ==
    {normalizeAnalysis(r, id) : r \in RouteApiResults}
        \cup {createFallbackAnalysis(id)}

\* the comparator of results.sort: priority, then relevance
compareByPriority(a, b) ==
    IF priorityOrder[a.priority] # priorityOrder[b.priority]
    THEN priorityOrder[a.priority] - priorityOrder[b.priority]
    ELSE sortScore(b) - sortScore(a)

RECURSIVE insertByPriority(_, _)
insertByPriority(sorted, a) ==
    IF sorted = <<>> THEN <<a>>
    ELSE IF compareByPriority(sorted[Len(sorted)], a) <= 0
    THEN Append(sorted, a)
    ELSE Append(insertByPriority(SubSeq(sorted, 1, Len(sorted) - 1), a),
                sorted[Len(sorted)])

RECURSIVE sortByPriority(_)
sortByPriority(list) ==
    IF list = <<>> THEN <<>>
    ELSE insertByPriority(sortByPriority(SubSeq(list, 1, Len(list) - 1)),
                          list[Len(list)])

\* the lists batchAnalyze(items) can return
groqBatchAnalyze(items) ==
    {sortByPriority([k \in 1..Len(items) |-> Analyzed(items[k], pick[k])]) :
        pick \in {p \in [1..Len(items) -> UNION {ItemAnalyses(id) :
                                                  id \in SeqRange(items)}] :
                     \A k \in 1..Len(items) : p[k] \in ItemAnalyses(items[k])}}

\* item.category as the fetchers set it: the category of the source for an
\* official changelog (source.category), determineCategory otherwise
fetchedCategory == [id \in ItemIds |->
                       IF Catalogue[id].sourceTier = "official"
                       THEN "feature" ELSE "other"]

\* topNews as the fallback of withTimeout: the items as fetched, with the
\* category of the fetcher and without the fields of an analysis
Unanalyzed(items) ==
    [k \in 1..Len(items) |->
        [Analyzed(items[k], NoAnalysis) EXCEPT
            !.category = fetchedCategory[items[k]]]]

\* ---- the request ----
MaxRequests == 2

IdleRequest == [phase |-> "idle", diskOk |-> TRUE, started |-> 0,
                topNews |-> <<>>, action |-> Null]

RequestKinds == {"news", "status", "cleanup"}

\* The step of GET that r describes: the cache and the scheduler as it
\* leaves them, and the response or the call GET now waits for.  The
\* promises of fetchAllSources exist from its call until GET has its result.
Continue(r, diskOk, t) ==
    /\ memoryCache' = r.cache.mem
    /\ cacheFile' = r.cache.file
    /\ loaded' = r.cache.loaded
    /\ schedState' = r.state
    /\ stateFile' = r.file
    /\ initialized' = TRUE
    /\ IF r.next = "respond"
       THEN /\ route' = IdleRequest
            /\ routeRet' = r.response
       ELSE /\ route' = [phase |-> IF r.next = "fetch" THEN "fetching"
                                   ELSE "analyzing",
                         diskOk |-> diskOk, started |-> t,
                         topNews |-> r.topNews,
                         action |-> IF r.next = "fetch" THEN r.action
                                    ELSE route.action]
            /\ routeRet' = NoResponse
    /\ aggPhase' = IF r.next = "fetch" THEN "fetching" ELSE "idle"
    /\ cutoffDate' = IF r.next = "fetch" THEN t - lookbackDays * Day ELSE 0
    /\ results' = [f \in Fetchers |-> Pending]
    /\ aggRet' = NoResult
    /\ UNCHANGED <<cacheRet, schedRet, poolVars, classifyVars, overlap,
                   overlapRet>>

\* GET is called; it answers from the cache or calls fetchAllSources(3)
RouteRequest(kind, forceRefresh, diskOk) ==
    LET r == BeforeFetch(kind, forceRefresh, diskOk, TheCache, schedState,
                         stateFile, initialized, now)
    IN  /\ route.phase = "idle"
        /\ steps < MaxRequests
        /\ steps' = steps + 1
        /\ Continue(r, diskOk, now)
        /\ UNCHANGED now

\* when the timer of withTimeout of request req fires
Deadline(req) ==
    req.started + (IF req.phase = "fetching" THEN FETCH_TIMEOUT
                   ELSE ANALYZE_TIMEOUT)

\* no timer of the request other is due before that of req
NextTimer(req, other) ==
    other.phase = "idle" \/ Deadline(req) <= Deadline(other)

\* fetchAllSources returns before the timer of withTimeout
RouteFetched ==
    /\ route.phase = "fetching"
    /\ aggPhase = "done"
    /\ Continue(AfterFetch(aggRet.items, route.diskOk, TheCache, schedState,
                           stateFile, now),
                route.diskOk, now)
    /\ UNCHANGED <<now, steps>>

\* The timer of withTimeout fires while a fetcher has not answered: the
\* fallback { items: [], sourceStats: [] } is the result of the fetch.
RouteFetchTimeout ==
    /\ route.phase = "fetching"
    /\ aggPhase = "fetching"
    /\ \E f \in Fetchers : results[f].status = "pending"
    /\ NextTimer(route, overlap)
    /\ now' = route.started + FETCH_TIMEOUT
    /\ Continue(AfterFetch(NoResult.items, route.diskOk, TheCache, schedState,
                           stateFile, now'),
                route.diskOk, now')
    /\ UNCHANGED steps

\* batchAnalyze returns before the timer of withTimeout
RouteAnalyzed ==
    /\ route.phase = "analyzing"
    /\ \E analyzedNews \in groqBatchAnalyze(route.topNews) :
          Continue(AfterAnalysis(analyzedNews, route.diskOk, TheCache,
                                 schedState, stateFile, now),
                   route.diskOk, now)
    /\ UNCHANGED <<now, steps>>

\* The timer of withTimeout fires before batchAnalyze returns: the fallback
\* topNews is the result of the analysis.
RouteAnalysisTimeout ==
    /\ route.phase = "analyzing"
    /\ NextTimer(route, overlap)
    /\ now' = route.started + ANALYZE_TIMEOUT
    /\ Continue(AfterAnalysis(Unanalyzed(route.topNews), route.diskOk, TheCache,
                              schedState, stateFile, now'),
                route.diskOk, now')
    /\ UNCHANGED steps

\* fetchAllSources or batchAnalyze rejects: the catch blocks
RouteProcessingError ==
    /\ route.phase \in {"fetching", "analyzing"}
    /\ Continue(innerCatch(route.diskOk, TheCache, schedState, stateFile,
                           now),
                route.diskOk, now)
    /\ UNCHANGED <<now, steps>>

\* the items the sources hold while the requests are served
RouteItems == {"oc1", "hn1"}

\* the fetchers whose source fails when it has nothing to return
RouteFailing == {3}

\* the lists fetcher f returns to a request
RouteLists(f) ==
    {list \in FetcherLists(f) :
        /\ SeqRange(list) \subseteq RouteItems
        /\ f \in RouteFailing => list # <<>>}

\* time between two requests
RouteTicks == {CACHE_TTL_news}

RouteHorizon == CACHE_TTL_news

TickRoute ==
    /\ route.phase = "idle"
    /\ overlap.phase = "idle"
    /\ \E d \in RouteTicks :
          /\ now + d <= StartTime + RouteHorizon + FETCH_TIMEOUT
                            + ANALYZE_TIMEOUT
          /\ now' = now + d
    /\ UNCHANGED <<steps, cacheVars, poolVars, schedVars, aggVars,
                   classifyVars, routeVars>>

IdleRoute ==
    /\ route = IdleRequest
    /\ routeRet = NoResponse
    /\ overlap = IdleRequest
    /\ overlapRet = NoResponse

\* ---- a second request while the first is being served ----
\* The step of the second GET that r describes.
ContinueOverlap(r, diskOk, t) ==
    /\ memoryCache' = r.cache.mem
    /\ cacheFile' = r.cache.file
    /\ loaded' = r.cache.loaded
    /\ schedState' = r.state
    /\ stateFile' = r.file
    /\ initialized' = TRUE
    /\ IF r.next = "respond"
       THEN /\ overlap' = IdleRequest
            /\ overlapRet' = r.response
       ELSE /\ overlap' = [phase |-> IF r.next = "fetch" THEN "fetching"
                                     ELSE "analyzing",
                           diskOk |-> diskOk, started |-> t,
                           topNews |-> r.topNews,
                           action |-> IF r.next = "fetch" THEN r.action
                                      ELSE overlap.action]
            /\ overlapRet' = NoResponse
    /\ UNCHANGED <<steps, cacheRet, schedRet, poolVars, aggVars, classifyVars,
                   route, routeRet>>

\* GET is called while another request waits for its fetch or its analysis
OverlapRequest(forceRefresh) ==
    /\ route.phase # "idle"
    /\ overlap.phase = "idle"
    /\ overlapRet = NoResponse
    /\ ContinueOverlap(BeforeFetch("news", forceRefresh, TRUE, TheCache,
                                   schedState, stateFile, initialized, now),
                       TRUE, now)
    /\ UNCHANGED now

\* what fetchAllSources returns to the second request
OverlapLists == {<<>>, <<"oc1">>}

\* fetchAllSources of the second request returns
OverlapFetched(rawNews) ==
    /\ overlap.phase = "fetching"
    /\ ContinueOverlap(AfterFetch(rawNews, overlap.diskOk, TheCache,
                                  schedState, stateFile, now),
                       overlap.diskOk, now)
    /\ UNCHANGED now

\* batchAnalyze of the second request returns
OverlapAnalyzed ==
    /\ overlap.phase = "analyzing"
    /\ \E analyzedNews \in groqBatchAnalyze(overlap.topNews) :
          ContinueOverlap(AfterAnalysis(analyzedNews, overlap.diskOk, TheCache,
                                        schedState, stateFile, now),
                          overlap.diskOk, now)
    /\ UNCHANGED now

\* the timer of withTimeout fires in the second request
OverlapTimeout ==
    /\ overlap.phase \in {"fetching", "analyzing"}
    /\ NextTimer(overlap, route)
    /\ now' = Deadline(overlap)
    /\ ContinueOverlap(IF overlap.phase = "fetching"
                       THEN AfterFetch(NoResult.items, overlap.diskOk,
                                       TheCache, schedState, stateFile, now')
                       ELSE AfterAnalysis(Unanalyzed(overlap.topNews),
                                          overlap.diskOk, TheCache, schedState,
                                          stateFile, now'),
                       overlap.diskOk, now')

\* fetchAllSources or batchAnalyze of the second request rejects
OverlapProcessingError ==
    /\ overlap.phase \in {"fetching", "analyzing"}
    /\ ContinueOverlap(innerCatch(overlap.diskOk, TheCache, schedState,
                                  stateFile, now),
                       overlap.diskOk, now)
    /\ UNCHANGED now

\* the interval after which the scheduler allows the next fetch
TickFetchInterval ==
    /\ route.phase = "idle"
    /\ overlap.phase = "idle"
    /\ now + minFetchInterval <= StartTime + RouteHorizon
    /\ now' = now + minFetchInterval
    /\ UNCHANGED <<steps, cacheVars, poolVars, schedVars, aggVars,
                   classifyVars, routeVars>>

\* An earlier process ran a full cycle sixteen minutes ago and a fetch that
\* returned nothing a minute ago; its cached news has expired.
EmptyFetchState ==
    [DefaultState EXCEPT !.lastRSSFetch = StartTime - Minute,
                         !.lastAnalysis = StartTime - 16 * Minute,
                         !.fetchCount = 2]

InitRefreshSched ==
    /\ schedState = DefaultState
    /\ stateFile \in {NoFile, SavedFile(EmptyFetchState)}
    /\ initialized = FALSE
    /\ schedRet = [op |-> "none", action |-> Null, at |-> 0,
                   startedAt |-> NullTime]

\* A process that stopped while processing left its flag in the file.
StuckState == [DefaultState EXCEPT !.isProcessing = TRUE,
                                   !.processStartTime = StartTime - Minute]

InitRouteSched ==
    /\ schedState = DefaultState
    /\ stateFile \in {NoFile, SavedFile(StuckState)}
    /\ initialized = FALSE
    /\ schedRet = [op |-> "none", action |-> Null, at |-> 0,
                   startedAt |-> NullTime]

(***************************************************************************)
(*                  analyzeNewsItem of lib/groq.ts                         *)
(*                                                                         *)
(* The analysis the refresh entry point uses.  It reads the same analysis  *)
(* cache and the same key pool as analyzeNewsItem of enhanced-rss.ts and   *)
(* differs from it in the bound and the delay of its retries.              *)
(***************************************************************************)
GROQ_MAX_RETRIES == 3

GROQ_RETRY_DELAY == 300

MaxGroqCalls == 4

GroqItems == {"oc1", "ph2"}

\* The request of call c is answered: a rate-limit error is retried while
\* retryCount < 3, after 300 ms * (retryCount + 1); the rest of the try block
\* and of the catch block is that of enhanced-rss.ts.
groqAnswerCall(w, c, outcome) ==
    LET call == w.calls[c]
    IN  IF /\ outcome.kind = "error"
           /\ outcome.status = RATE_LIMIT_STATUS
           /\ call.retryCount < GROQ_MAX_RETRIES
        THEN [w EXCEPT !.status = reportError(w.status, call.key,
                                              outcome.status, now),
                       !.calls[c].state = "backoff",
                       !.calls[c].wakeAt =
                           now + GROQ_RETRY_DELAY * (call.retryCount + 1)]
        ELSE answerCall(w, c, outcome)

\* what the calls of analyzeNewsItem store
GroqCommit(w) ==
    /\ w.n <= MaxGroqCalls
    /\ steps' = w.n
    /\ keyStatus' = w.status
    /\ currentIndex' = w.index
    /\ memoryCache' = w.cache.mem
    /\ cacheFile' = w.cache.file
    /\ loaded' = w.cache.loaded
    /\ calls' = w.calls
    /\ races' = w.races
    /\ UNCHANGED <<now, keys, poolRet, cacheRet, schedVars, aggVars, batch,
                   batchRet, routeVars>>

\* analyzeNewsItem(item) is called; races[id] holds what its promise
\* resolves to.
GroqAnalyze(id) ==
    /\ id \notin DOMAIN races
    /\ GroqCommit(analyzeNewsItem([Work EXCEPT !.races = id :> NoRace @@ races],
                                  id, 0, TRUE))

\* The request of call c is answered.
GroqRespond(c, outcome) ==
    /\ c \in DOMAIN calls
    /\ calls[c].state = "inflight"
    /\ GroqCommit(groqAnswerCall(Work, c, outcome))

\* The delay before the retry of call c is over: analyzeNewsItem(item,
\* retryCount + 1)
GroqRetry(c) ==
    /\ c \in DOMAIN calls
    /\ calls[c].state = "backoff"
    /\ now >= calls[c].wakeAt
    /\ GroqCommit(analyzeNewsItem(WithoutCall(Work, c), calls[c].id,
                                  calls[c].retryCount + 1, calls[c].live))

(***************************************************************************)
(*                           Specifications                                *)
(***************************************************************************)
InitCache ==
    /\ now = StartTime
    /\ steps = 0
    /\ InitCacheVars
    /\ IdlePool
    /\ InitSchedVars
    /\ IdleAgg
    /\ IdleClassify
    /\ IdleRoute

NextCache ==
    \/ TickCache
    \/ \E k \in CacheKeys : CacheGet(k)
    \/ \E k \in CacheKeys, v \in CacheData, c \in CustomTTLs : CacheSet(k, v, c)
    \/ \E k \in CacheKeys : CacheDelete(k)
    \/ CacheClear
    \/ CacheCleanup
    \/ CacheGetAll
    \/ CacheGetStats
    \/ CacheRestart

SpecCache == InitCache /\ [][NextCache]_vars

InitPool ==
    /\ now = StartTime
    /\ steps = 0
    /\ InitCacheVars
    /\ InitPoolVars
    /\ InitSchedVars
    /\ IdleAgg
    /\ IdleClassify
    /\ IdleRoute

NextPool ==
    \/ TickPool
    \/ PoolGetNextKey
    \/ \E k \in SeqRange(keys) : PoolReportSuccess(k)
    \/ \E k \in SeqRange(keys), c \in ErrorCodes : PoolReportError(k, c)
    \/ PoolResetAll

SpecPool == InitPool /\ [][NextPool]_vars

InitSched ==
    /\ now = StartTime
    /\ steps = 0
    /\ InitCacheVars
    /\ IdlePool
    /\ InitSchedVars
    /\ IdleAgg
    /\ IdleClassify
    /\ IdleRoute

NextSched ==
    \/ TickSched
    \/ SchedInit
    \/ SchedGetNextAction
    \/ SchedStartRSSFetch
    \/ SchedCompleteRSSFetch
    \/ SchedStartAnalysis
    \/ SchedCompleteAnalysis
    \/ SchedFailProcessing
    \/ SchedReset
    \/ SchedGetStatus
    \/ SchedRestart

SpecSched == InitSched /\ [][NextSched]_vars

\* The clock of the requests: the instants at which an interval of the
\* scheduler has just elapsed, or elapsed a millisecond ago.
LiveInstants ==
    {StartTime + m * Minute + f : m \in {0, 2, 5, 20, 22, 30}, f \in {0, 1}}

TickLive ==
    /\ \E t \in LiveInstants : t > now /\ now' = t
    /\ UNCHANGED <<steps, schedVars, notSched>>

NextSchedLive ==
    \/ TickLive
    \/ SchedRequest
    \/ SchedOperation

\* Time keeps advancing and requests keep arriving.
FairSched == WF_vars(TickLive) /\ WF_vars(SchedRequest)

SpecSchedLive == InitSched /\ [][NextSchedLive]_vars /\ FairSched

InitAgg ==
    /\ now = StartTime
    /\ steps = 0
    /\ InitCacheVars
    /\ IdlePool
    /\ InitSchedVars
    /\ IdleAgg
    /\ IdleClassify
    /\ IdleRoute

NextAgg ==
    \/ TickAgg
    \/ AggStart
    \/ \E f \in Fetchers : \E list \in FetcherLists(f) : FetcherFulfil(f, list)
    \/ \E f \in Fetchers : FetcherReject(f)
    \/ \E f \in CatchingFetchers : FetcherCatch(f)
    \/ AggComplete

SpecAgg == InitAgg /\ [][NextAgg]_vars

InitClassify ==
    /\ now = StartTime
    /\ steps = 0
    /\ InitClassifyCache
    /\ InitClassifyPool
    /\ InitSchedVars
    /\ IdleAgg
    /\ IdleClassify
    /\ IdleRoute

NextClassify ==
    \/ AdvanceClassify
    \/ \E items \in ClassifyInputs : BatchAnalyze(items)
    \/ \E c \in DOMAIN calls : \E outcome \in ApiOutcomes : ApiRespond(c, outcome)
    \/ \E c \in DOMAIN calls : RetryCall(c)
    \/ \E id \in DOMAIN races : RaceTimeout(id)
    \/ CompleteChunk
    \/ NextChunk

SpecClassify == InitClassify /\ [][NextClassify]_vars

\* Passes of batchAnalyze that follow each other, on a cache that starts
\* empty: no entry expires while they run.
InitPasses ==
    /\ now = StartTime
    /\ steps = 0
    /\ InitCacheVars
    /\ InitClassifyPool
    /\ InitSchedVars
    /\ IdleAgg
    /\ IdleClassify
    /\ IdleRoute

NextPasses ==
    \/ AdvanceClassify
    \/ \E items \in PassInputs : BatchAnalyze(items)
    \/ \E items \in PassInputs : BatchAnalyzeAgain(items)
    \/ \E c \in DOMAIN calls : \E outcome \in ApiOutcomes : ApiRespond(c, outcome)
    \/ \E c \in DOMAIN calls : RetryCall(c)
    \/ \E id \in DOMAIN races : RaceTimeout(id)
    \/ CompleteChunk
    \/ NextChunk

SpecPasses == InitPasses /\ [][NextPasses]_vars

\* A pass of batchAnalyze whose timers fire in the order of their deadlines:
\* the event loop runs a continuation that is ready, and a timer that is
\* due, before a later timer.
PassCanStep ==
    \/ /\ batch.phase = "running"
       /\ \/ \A id \in DOMAIN races : races[id].settled
          \/ now >= batch.deadline
    \/ batch.phase = "delay" /\ now >= batch.deadline

AdvanceInOrder == ~PassCanStep /\ AdvanceClassify

NextPassLive ==
    \/ AdvanceInOrder
    \/ \E items \in PassInputs : BatchAnalyze(items)
    \/ \E c \in DOMAIN calls : \E outcome \in ApiOutcomes : ApiRespond(c, outcome)
    \/ \E c \in DOMAIN calls : RetryCall(c)
    \/ \E id \in DOMAIN races : RaceTimeout(id)
    \/ CompleteChunk
    \/ NextChunk

\* The timers and the continuations of the pass run; no answer of the
\* classifier is ever promised.
FairPass ==
    /\ WF_vars(AdvanceInOrder)
    /\ WF_vars(\E id \in DOMAIN races : RaceTimeout(id))
    /\ WF_vars(CompleteChunk)
    /\ WF_vars(NextChunk)

SpecPassLive == InitPasses /\ [][NextPassLive]_vars /\ FairPass

InitRoute ==
    /\ now = StartTime
    /\ steps = 0
    /\ InitCacheVars
    /\ IdlePool
    /\ InitRouteSched
    /\ IdleAgg
    /\ IdleClassify
    /\ IdleRoute

NextRoute ==
    \/ TickRoute
    \/ \E forceRefresh \in BOOLEAN, diskOk \in BOOLEAN :
          RouteRequest("news", forceRefresh, diskOk)
    \/ \E kind \in RequestKinds \ {"news"} : RouteRequest(kind, FALSE, TRUE)
    \/ \E f \in Fetchers : \E list \in RouteLists(f) : FetcherFulfil(f, list)
    \/ \E f \in RouteFailing : FetcherReject(f)
    \/ AggComplete
    \/ RouteFetched
    \/ RouteFetchTimeout
    \/ RouteAnalyzed
    \/ RouteAnalysisTimeout
    \/ RouteProcessingError

SpecRoute == InitRoute /\ [][NextRoute]_vars

\* The timers of withTimeout fire, and a continuation that is ready to run
\* (the rest of fetchAllSources, the rest of GET) runs.
RouteProgress ==
    \/ AggComplete
    \/ RouteFetched
    \/ RouteFetchTimeout
    \/ RouteAnalysisTimeout

FairRoute == WF_vars(RouteProgress)

SpecRouteFair == SpecRoute /\ FairRoute

InitRefresh ==
    /\ now = StartTime
    /\ steps = 0
    /\ InitCacheVars
    /\ IdlePool
    /\ InitRefreshSched
    /\ IdleAgg
    /\ IdleClassify
    /\ IdleRoute

\* the requests of SpecRoute with the clock of the scheduler's fetch
\* interval
NextRefresh ==
    \/ NextRoute
    \/ TickFetchInterval

SpecRefresh == InitRefresh /\ [][NextRefresh]_vars

\* requests at one instant on a working file system, and a second request
\* during the first
NextOverlap ==
    \/ \E forceRefresh \in BOOLEAN : RouteRequest("news", forceRefresh, TRUE)
    \/ \E f \in Fetchers : \E list \in RouteLists(f) : FetcherFulfil(f, list)
    \/ \E f \in RouteFailing : FetcherReject(f)
    \/ AggComplete
    \/ RouteFetched
    \/ RouteFetchTimeout
    \/ RouteAnalyzed
    \/ RouteAnalysisTimeout
    \/ RouteProcessingError
    \/ \E forceRefresh \in BOOLEAN : OverlapRequest(forceRefresh)
    \/ \E rawNews \in OverlapLists : OverlapFetched(rawNews)
    \/ OverlapAnalyzed
    \/ OverlapTimeout
    \/ OverlapProcessingError

SpecOverlap == InitRoute /\ [][NextOverlap]_vars

InitGroq == InitClassify

NextGroq ==
    \/ AdvanceClassify
    \/ \E id \in GroqItems : GroqAnalyze(id)
    \/ \E c \in DOMAIN calls : \E outcome \in ApiOutcomes : GroqRespond(c, outcome)
    \/ \E c \in DOMAIN calls : GroqRetry(c)

SpecGroq == InitGroq /\ [][NextGroq]_vars

(***************************************************************************)
(*                               Claims                                    *)
(***************************************************************************)
\* C1: whenever get(key) finds an entry whose expiry timestamp is at or
\* before the current time (now >= expiresAt), it returns none -- also at
\* the exact instant now = expiresAt.
C1_TTLCorrectness ==
    (cacheRet.op = "get" /\ cacheRet.entry # NoEntry
        /\ cacheRet.at >= cacheRet.entry.expiresAt)
    => cacheRet.value = Null


AllInCooldown(st, t) == \A k \in DOMAIN st : st[k].cooldownUntil > t

DistinctExpiry(st) ==
    \A k1, k2 \in DOMAIN st :
        k1 # k2 => st[k1].cooldownUntil # st[k2].cooldownUntil

\* C3: with N >= 1 keys that are all in cooldown, with pairwise distinct
\* expiry times, getNextKey() returns a key, never null, and the key it
\* returns is the one whose cooldown expires soonest.
C3_LeastCooldownReturned ==
    [][(PoolGetNextKey /\ Len(keys) >= 1 /\ AllInCooldown(keyStatus, now)
            /\ DistinctExpiry(keyStatus))
        => (/\ poolRet'.key \in SeqRange(keys)
            /\ \A k \in SeqRange(keys) :
                  keyStatus[poolRet'.key].cooldownUntil
                      <= keyStatus[k].cooldownUntil)]_vars

C3_Witness ==
    /\ poolRet.op = "getNextKey"
    /\ poolRet.fallback
    /\ Len(keys) >= 2
    /\ AllInCooldown(keyStatus, poolRet.at)
    /\ DistinctExpiry(keyStatus)
    /\ poolRet.key \in SeqRange(keys)
    /\ poolRet.key # keys[1]

\* The state getNextAction() works on: the memory state, or the saved one
\* when init() has not run yet in this process.
StateAtCall ==
    IF initialized \/ ~stateFile.exists THEN schedState ELSE stateFile.state

\* C4: if the processing flag is set and the processing-start timestamp is
\* now - (maxProcessingTime + 1), getNextAction() returns an action other
\* than wait and leaves the processing flag cleared.
C4_SelfHeal ==
    [][(/\ SchedGetNextAction
        /\ StateAtCall.isProcessing
        /\ StateAtCall.processStartTime = now - (maxProcessingTime + 1))
        => (/\ schedRet'.action # "wait"
            /\ ~schedState'.isProcessing)]_vars

C4_Witness ==
    /\ schedRet.op = "getNextAction"
    /\ schedRet.startedAt = schedRet.at - (maxProcessingTime + 1)
    /\ schedRet.action # "wait"
    /\ ~schedState.isProcessing
    /\ now = schedRet.at

\* C5 (as claimed): idle, with the last analysis 20 minutes ago,
\* getNextAction() returns fetch_only when the time since the last fetch is
\* at least minFetchInterval, and serve_cache otherwise.
C5_AsClaimed ==
    [][(/\ SchedGetNextAction
        /\ ~StateAtCall.isProcessing
        /\ StateAtCall.lastAnalysis = now - 20 * Minute)
        => schedRet'.action =
             (IF now - StateAtCall.lastRSSFetch >= 5 * Minute
              THEN "fetch_only" ELSE "serve_cache")]_vars

\* C5 (amended): idle, with the last analysis 20 minutes ago (so analysis
\* is allowed again, 20 >= 15 minutes, and the data is not stale, 20 < 30
\* minutes), getNextAction() returns fetch_and_analyze when the time since
\* the last fetch is at least minFetchInterval, and serve_cache otherwise.
C5_TwentyMinutes ==
    [][(/\ SchedGetNextAction
        /\ ~StateAtCall.isProcessing
        /\ StateAtCall.lastAnalysis = now - 20 * Minute)
        => schedRet'.action =
             (IF now - StateAtCall.lastRSSFetch >= 5 * Minute
              THEN "fetch_and_analyze" ELSE "serve_cache")]_vars

C5_Witness ==
    /\ schedRet.op = "getNextAction"
    /\ schedRet.startedAt = NullTime
    /\ now = schedRet.at
    /\ schedState.lastAnalysis = now - 20 * Minute
    /\ now - schedState.lastRSSFetch >= 5 * Minute
    /\ schedRet.action = "fetch_and_analyze"

\* The first matching rule of the ordered list of C6, from the elapsed
\* times alone.
FirstMatchingRule(processing, startedAt, sinceFetch, sinceAnalysis) ==
    IF processing /\ ~(startedAt > 2 * Minute) THEN "wait"
    ELSE IF sinceAnalysis >= 30 * Minute /\ sinceAnalysis >= 15 * Minute
    THEN "fetch_and_analyze"
    ELSE IF sinceFetch >= 5 * Minute /\ ~(sinceAnalysis >= 15 * Minute)
    THEN "fetch_only"
    ELSE IF sinceFetch >= 5 * Minute /\ sinceAnalysis >= 15 * Minute
    THEN "fetch_and_analyze"
    ELSE "serve_cache"

\* C6: getNextAction() returns exactly the first matching rule of the
\* list: processing and not timed out -> wait; stale and analysis allowed
\* -> fetch_and_analyze; fetch allowed and analysis not allowed ->
\* fetch_only; both allowed -> fetch_and_analyze; otherwise serve_cache.
C6_FirstMatchingRule ==
    [][SchedGetNextAction
        => (/\ schedRet'.action =
                 FirstMatchingRule(StateAtCall.isProcessing,
                                   now - StateAtCall.processStartTime,
                                   now - StateAtCall.lastRSSFetch,
                                   now - StateAtCall.lastAnalysis)
            /\ schedRet'.action \in
                 {"wait", "fetch_and_analyze", "fetch_only", "serve_cache"})]_vars

C6_Witness ==
    /\ schedRet.op = "getNextAction"
    /\ now = schedRet.at
    /\ schedRet.action = "fetch_only"
    /\ ~schedState.isProcessing
    /\ now - schedState.lastRSSFetch >= 5 * Minute
    /\ now - schedState.lastAnalysis < 15 * Minute

\* ------------------------------ aggregator ------------------------------
\* the items of fetcher f that the last pass aggregated
ItemsOf(f) ==
    IF results[f].status = "fulfilled" THEN results[f].value ELSE <<>>

\* the raw items of the pass: those of the fetchers that succeeded
RawItems == ItemsOf(1) \o ItemsOf(2) \o ItemsOf(3) \o ItemsOf(4) \o ItemsOf(5)

RawItemSet == {RawItems[i] : i \in 1..Len(RawItems)}

Output == aggRet.items

OutputSet == {Output[i] : i \in 1..Len(Output)}

AllDatesValid == \A id \in RawItemSet : pubDate[id].valid

InWindow(id) == pubDate[id].valid /\ pubDate[id].time > cutoffDate

\* C7: the output of a pass is the same for every permutation of its raw
\* items (and for every run on them), also when duplicates tie on score and
\* publication time.  Stated for the passes in which every date parses,
\* where the sort has exactly one result.
C7_PermutationInvariant ==
    (aggPhase = "done" /\ AllDatesValid) =>
        \A perm \in Orderings(RawItems) :
            deduplicateAndFilter(perm, cutoffDate) = {Output}

tierRank(id) ==
    LET tier == Catalogue[id].sourceTier
    IN  tierOrder[IF tier = NoTier THEN "aggregator" ELSE tier]

\* C8: of two output items with the same score, the one of the higher tier
\* (official > trusted > community > aggregator) comes first.
C8_TierOrdering ==
    aggPhase = "done" =>
        \A i, j \in 1..Len(Output) :
            (i < j /\ score[Output[i]] = score[Output[j]])
                => tierRank(Output[i]) <= tierRank(Output[j])

\* the links of the example, and the key both normalize to
ExampleLinkA == Catalogue["oc1"].link

ExampleLinkB == Catalogue["hn1"].link

\* C9: no two output items share a normalized link, or a normalized title
\* of more than 10 characters; and of two scored items inside the lookback
\* window with the same normalized link, the lower-scored one is not in the
\* output.
C9_NoSharedKeys ==
    aggPhase = "done" =>
        /\ \A i, j \in 1..Len(Output) :
              i < j =>
                 /\ normalizedUrl[Output[i]] # normalizedUrl[Output[j]]
                 /\ Len(normalizedTitle[Output[i]]) > 10
                       => normalizedTitle[Output[i]] # normalizedTitle[Output[j]]
        /\ \A a, b \in RawItemSet :
              (/\ InWindow(a) /\ InWindow(b)
               /\ passesNoiseFilter[a] /\ passesNoiseFilter[b]
               /\ normalizedUrl[a] = normalizedUrl[b]
               /\ score[a] < score[b])
                 => a \notin OutputSet

\* the two links of the example were fetched in one pass, both items inside
\* the window: they have one key and only the higher-scored item is kept
C9_Witness ==
    /\ aggPhase = "done"
    /\ {"oc1", "hn1"} \subseteq RawItemSet
    /\ InWindow("oc1") /\ InWindow("hn1")
    /\ ExampleLinkA # ExampleLinkB
    /\ NormalizeUrl(ExampleLinkA) = NormalizeUrl(ExampleLinkB)
    /\ score["hn1"] < score["oc1"]
    /\ "oc1" \in OutputSet /\ "hn1" \notin OutputSet

\* C10: whichever fetchers fail, the pass completes, and returns what
\* filtering, ranking and deduplication yield from the items of the fetchers
\* that succeeded; the health report marks exactly the failed fetchers, and
\* keeps the items of the others as they were returned.
C10_FailureIsolation ==
    aggPhase = "done" =>
        /\ Output \in deduplicateAndFilter(RawItems, cutoffDate)
        /\ \A f \in Fetchers :
              /\ aggRet.sourceStats[f].success = (results[f].status = "fulfilled")
              /\ aggRet.sourceStats[f].items = ItemsOf(f)

\* a pass in which some fetchers failed and the others' items are returned
C10_Witness ==
    /\ aggPhase = "done"
    /\ \E f \in Fetchers : results[f].status = "rejected"
    /\ \E f \in Fetchers : results[f].status = "fulfilled" /\ ItemsOf(f) # <<>>
    /\ Output # <<>>
    /\ OutputSet \subseteq RawItemSet

\* ------------------------------ classifier ------------------------------
Classified(a) ==
    a.category \in validCategories /\ a.priority \in validPriorities

AllClassified(list) == \A k \in 1..Len(list) : Classified(list[k])

\* C2: whatever the classifier answers for each item (valid fields, invalid
\* fields, no content, a malformed answer, an error, a rate limit, a
\* timeout) and whether or not the pool has a key, every analysis a pass of
\* batchAnalyze collects has a category of the closed category set and a
\* priority of the closed priority set; when the pass returns, every input
\* item has been given such an analysis, and every returned item is an input
\* item that carries one.
C2_TotalCoverage ==
    /\ AllClassified(batch.cachedResults)
    /\ AllClassified(batch.results)
    /\ \A id \in DOMAIN races :
          races[id].settled => Classified(races[id].analysis)
    /\ batch.phase = "done" =>
          /\ Len(batch.cachedResults) + Len(batch.results) = Len(batch.items)
          /\ {a.id : a \in SeqRange(batch.cachedResults \o batch.results)}
                = SeqRange(batch.items)
          /\ AllClassified(batchRet)
          /\ \A k \in 1..Len(batchRet) : batchRet[k].id \in SeqRange(batch.items)

\* A pass over two uncached items has returned both: one with the heuristic
\* analysis after its request failed or timed out, one with the normalized
\* answer of the classifier whose category was outside the set and whose
\* relevance score was clamped to 10.
C2_Witness ==
    /\ batch.phase = "done"
    /\ keys # <<>>
    /\ Len(batch.results) = 2
    /\ \E i, j \in 1..Len(batchRet) :
          /\ batchRet[i].technicalImpact
          /\ batchRet[i].relevanceScore = 10
          /\ ~batchRet[j].technicalImpact

\* ------------------------------ scheduler -------------------------------
\* C15: each completion operation of the scheduler, called while the
\* scheduler is processing, leaves it idle (processing flag cleared) and
\* records the completion time: completeRSSFetch in lastRSSFetch,
\* completeAnalysis in lastAnalysis.
C15_CompletionToIdle ==
    [][/\ (SchedCompleteRSSFetch /\ schedState.isProcessing)
            => (/\ ~schedState'.isProcessing
                /\ schedState'.lastRSSFetch = now)
       /\ (SchedCompleteAnalysis /\ schedState.isProcessing)
            => (/\ ~schedState'.isProcessing
                /\ schedState'.lastAnalysis = now)]_vars

\* -------------------------------- pool ----------------------------------
OutOfCooldown(st, k, t) == st[k].cooldownUntil <= t

\* C16: whenever at least one key of the pool is out of cooldown (its
\* cooldown has expired or never started), getNextKey() returns a key that
\* is not in cooldown; so a key whose cooldown has expired is returned again
\* without resetKey() or resetAll().
C16_SkipsCooldown ==
    [][(/\ PoolGetNextKey
        /\ \E k \in SeqRange(keys) : OutOfCooldown(keyStatus, k, now))
        => (/\ poolRet'.key \in SeqRange(keys)
            /\ OutOfCooldown(keyStatus, poolRet'.key, now))]_vars

\* getNextKey() has just returned a key whose cooldown had run out, past
\* another key that is still in cooldown.
C16_Witness ==
    /\ poolRet.op = "getNextKey"
    /\ now = poolRet.at
    /\ poolRet.key \in SeqRange(keys)
    /\ keyStatus[poolRet.key].cooldownUntil > 0
    /\ keyStatus[poolRet.key].cooldownUntil <= poolRet.at
    /\ keyStatus[poolRet.key].lastUsed = poolRet.at
    /\ \E k \in SeqRange(keys) : keyStatus[k].cooldownUntil > poolRet.at

\* base * multiplier^e for e = 1..5: 60000 * 1.5^e, written out
CooldownAfter == <<90000, 135000, 202500, 303750, 455625>>

\* C17: reportError(key, 429) adds one to the error count of the key and
\* sets its cooldown to now + COOLDOWN_DURATION * 1.5^min(errors, 5), errors
\* being the new count; so the duration does not decrease from one
\* rate-limit error to the next and is the same from the fifth error on.
C17_ExponentialCooldown ==
    [][\A k \in SeqRange(keys) :
          PoolReportError(k, RATE_LIMIT_STATUS) =>
            LET n == keyStatus[k].errorCount + 1
                d == keyStatus'[k].cooldownUntil - now
            IN  /\ keyStatus'[k].errorCount = n
                /\ d = CooldownAfter[Min(n, COOLDOWN_EXPONENT_CAP)]
                /\ n > 1 => d >= CooldownAfter[Min(n - 1, COOLDOWN_EXPONENT_CAP)]
                /\ n > COOLDOWN_EXPONENT_CAP
                     => d = CooldownAfter[COOLDOWN_EXPONENT_CAP]]_vars

\* a sixth error in a row, rate-limited: the cooldown is that of the fifth
C17_Witness ==
    /\ poolRet.op = "reportError"
    /\ now = poolRet.at
    /\ keyStatus[poolRet.key].errorCount > COOLDOWN_EXPONENT_CAP
    /\ ~keyStatus[poolRet.key].isHealthy
    /\ keyStatus[poolRet.key].cooldownUntil
          = poolRet.at + CooldownAfter[COOLDOWN_EXPONENT_CAP]

\* C18: reportError(key, status) with a status other than 429 leaves the
\* cooldown and the health of the key as they were while its error count,
\* the new error included, has not exceeded MAX_ERRORS_BEFORE_COOLDOWN;
\* once the count exceeds it, the cooldown is now + COOLDOWN_DURATION and
\* the key is unhealthy.
C18_FlatCooldownOverThreshold ==
    [][\A k \in SeqRange(keys) : \A c \in ErrorCodes \ {RATE_LIMIT_STATUS} :
          PoolReportError(k, c) =>
            LET n == keyStatus[k].errorCount + 1
            IN  /\ n <= MAX_ERRORS_BEFORE_COOLDOWN
                     => /\ keyStatus'[k].cooldownUntil = keyStatus[k].cooldownUntil
                        /\ keyStatus'[k].isHealthy = keyStatus[k].isHealthy
                /\ n > MAX_ERRORS_BEFORE_COOLDOWN
                     => /\ keyStatus'[k].cooldownUntil = now + COOLDOWN_DURATION
                        /\ ~keyStatus'[k].isHealthy]_vars

\* -------------------------------- cache ---------------------------------
\* C19: set(key, value, customTTL) stores the entry with expiresAt = now +
\* customTTL whenever a custom TTL is supplied, whatever its value, 0
\* included, and with expiresAt = now + the default TTL only when none is
\* supplied.
C19_CustomTTL ==
    [][\A k \in CacheKeys, v \in CacheData, c \in CustomTTLs :
          CacheSet(k, v, c) =>
              memoryCache'[k].expiresAt
                  = now + (IF c = NoTTL THEN CACHE_TTL_news ELSE c)]_vars

\* C20: after every completed operation that changes the in-memory map of a
\* loaded cache (set, delete, clear, cleanup, the eviction of an expired
\* entry on get), the durable copy holds exactly the entries of the map.
C20_DurableMirror ==
    [][(loaded /\ loaded' /\ memoryCache' # memoryCache)
        => cacheFile' = memoryCache']_vars

\* ------------------------- refresh entry point --------------------------
\* the fetch of a request ends: fetchAllSources returned or the timer fired
FetchEnds == RouteFetched \/ RouteFetchTimeout

\* the lists a pass returns when a fetcher that has not answered counts as
\* failed
ResponsiveNews ==
    {sliceTo(list, TOP_NEWS) :
        list \in deduplicateAndFilter(CollectItems(results, 1), cutoffDate)}

\* C11: when the fetch of a refresh cycle ends -- every fetcher has
\* answered, or the time bound of 20 s is reached while a fetcher is slow
\* or never responds -- the cycle goes on, no later than the time bound,
\* with the items the responsive sources produced, the unresponsive
\* source counting as failed: if these sources produced items that pass
\* the filters, the items are handed to the analysis and are not dropped.
C11_ResponsiveSourcesReturned ==
    [][(FetchEnds /\ <<>> \notin ResponsiveNews)
          => /\ route'.phase = "analyzing"
             /\ route'.topNews \in ResponsiveNews
             /\ now' <= route.started + FETCH_TIMEOUT]_vars

\* every source failed or returned nothing
AllSourcesEmpty ==
    \A f \in Fetchers :
        \/ results[f].status = "rejected"
        \/ results[f].status = "fulfilled" /\ results[f].value = <<>>

\* the combined output is cached, not yet expired at t, and not empty
CachedNewsAvailable(t) ==
    LET mem == LoadedMap(memoryCache,
                         IF route.diskOk THEN cacheFile ELSE EmptyMap,
                         loaded, t)
    IN  /\ NEWS_KEY \in DOMAIN mem
        /\ t < mem[NEWS_KEY].expiresAt
        /\ mem[NEWS_KEY].data # <<>>

\* C12: when every source of a refresh cycle failed or returned nothing,
\* the request is answered with the cached combined output, flagged as
\* served from the cache, if that output is cached, unexpired (now before
\* its expiry time) and not empty; otherwise, and only then, it is
\* answered with the empty-result error.
C12_CacheFallback ==
    [][(RouteFetched /\ AllSourcesEmpty)
          => IF CachedNewsAvailable(now)
             THEN /\ routeRet'.kind = "news"
                  /\ routeRet'.fromCache
                  /\ routeRet'.items = memoryCache[NEWS_KEY].data
             ELSE routeRet' = ErrorResponse("No news available")]_vars

\* a response of GET: a JSON body with status 200 or 202
WellFormed(r) ==
    /\ r.kind \in ResponseKinds
    /\ r.status \in {HTTP_OK, HTTP_ACCEPTED}
    /\ r.kind # "news" => r.items = <<>>
    /\ r.kind = "processing" <=> r.status = HTTP_ACCEPTED

ClassificationFails ==
    \/ RouteAnalysisTimeout
    \/ route.phase = "analyzing" /\ RouteProcessingError

\* C14: whenever the classification step of a refresh cycle fails or
\* exceeds its overall deadline of 15 s, every item of the response of the
\* entry point and every item then held by the combined-output cache has
\* a category and a priority of the closed sets.
C14_DegradesToClassified ==
    [][ClassificationFails
          => /\ AllClassified(routeRet'.items)
             /\ NEWS_KEY \in DOMAIN memoryCache'
                   => AllClassified(memoryCache'[NEWS_KEY].data)]_vars

\* C21: for one item the external classifier is called at most three times,
\* one initial call and at most two retries: no request is ever issued with
\* a retry count above two.
C21_AtMostThreeCalls ==
    \A c \in DOMAIN calls : calls[c].retryCount + 1 <= MAX_RETRIES + 1

\* The analysis cache holds, under the id of each item the pass analysed,
\* the analysis the pass returned for it.
CacheHoldsResults ==
    \A k \in 1..Len(batch.results) :
       LET a == batch.results[k]
       IN  /\ a.id \in DOMAIN memoryCache
           /\ ~GetExpired(memoryCache[a.id], now)
           /\ Analyzed(a.id, memoryCache[a.id].data) = a

\* C22: when the classification step finishes, the classification cache
\* holds under the identity of each newly classified item the enrichment
\* that was returned for it, whether it came from the external classifier
\* or from the heuristic fallback.
C22_ResultsCached ==
    [][(batch.phase # "done" /\ batch'.phase = "done") => CacheHoldsResults']_vars

\* the merged list the filter of a finished pass is applied to
MergedResults == sortAnalyzed(batch.cachedResults \o batch.results)

IsScore(a, min) == a.relevanceScore # NaNScore /\ a.relevanceScore >= min

\* the rule of the claim: one minimum relevance score for every item that
\* is neither breaking nor official and high
ClaimedKeep(a) ==
    \/ a.priority = "breaking"
    \/ Catalogue[a.id].sourceTier = "official" /\ a.priority = "high"
    \/ IsScore(a, MIN_RELEVANCE)

AmendedKeep(a) ==
    IF a.priority = "breaking" THEN TRUE
    ELSE IF a.priority = "high"
    THEN Catalogue[a.id].sourceTier = "official" \/ IsScore(a, MIN_RELEVANCE_HIGH)
    ELSE IsScore(a, MIN_RELEVANCE)

Refused ==
    /\ schedRet.op = "getNextAction"
    /\ schedRet.action \in {"wait", "serve_cache"}

\* nextAction() has answered fetch_only or fetch_and_analyze
Granted ==
    /\ schedRet.op = "getNextAction"
    /\ schedRet.action \in {"fetch_only", "fetch_and_analyze"}

\* C24: refresh is eventually granted: while time keeps advancing and
\* non-forced requests keep arriving, an answer wait or serve_cache of
\* nextAction() is followed by an answer fetch_only or fetch_and_analyze,
\* also when a started cycle never reports completion, and without reset().
C24_EventuallyGranted == Refused ~> Granted

\* A started cycle has not reported completion for more than
\* maxProcessingTime, nextAction() had answered wait, and now grants.
C24_Witness ==
    /\ Granted
    /\ schedRet.startedAt # NullTime
    /\ now - schedRet.startedAt > maxProcessingTime

\* The fetch counter an operation works on: that of the scheduler object,
\* or, before init(), the one init() will load.
FetchCounter ==
    initState(schedState, stateFile, initialized, now).fetchCount

InCycle(req) ==
    /\ req.phase \in {"fetching", "analyzing"}
    /\ now - req.started <= maxProcessingTime

\* C25: while one request's fetch/classify cycle is in progress and not
\* timed out, no other request starts a second cycle: at most one refresh
\* cycle runs at a time.
C25_OneCycleAtATime == ~(InCycle(route) /\ InCycle(overlap))

\* C27: when the scheduler's decision for a request is fetch_only, the
\* entry point fetches the sources but does not call the classification
\* step and does not update the last-classification timestamp.
C27_FetchOnlySkipsAnalysis ==
    [][route.action = "fetch_only" =>
          /\ route'.phase # "analyzing"
          /\ schedState'.lastAnalysis = schedState.lastAnalysis]_vars

\* C28: without force refresh, the entry point never starts a source-fetch
\* pass for a request whose scheduler decision is serve_cache or wait.
C28_NoFetchWhenServing ==
    route.phase = "fetching" => route.action \notin {"serve_cache", "wait"}

\* C29: a refresh cycle that ends in failure while it fetches (the fetch
\* yields no items, times out, or throws) returns the scheduler to idle
\* without changing the last-fetch timestamp, the last-classification
\* timestamp or the fetch counter.
C29_FailureLeavesCounters ==
    [][(route.phase = "fetching" /\ route'.phase = "idle") =>
          /\ ~schedState'.isProcessing
          /\ schedState'.lastRSSFetch = schedState.lastRSSFetch
          /\ schedState'.lastAnalysis = schedState.lastAnalysis
          /\ schedState'.fetchCount = schedState.fetchCount]_vars

\* C30: once an item has been returned by a classification pass, a later
\* pass returns the same category and priority for it while its entry in
\* the classification cache has not expired (no entry expires in the
\* seconds the passes of SpecPasses take).
C30_StableClassification ==
    [][\A i \in 1..Len(batchRet) : \A j \in 1..Len(batchRet') :
          batchRet[i].id = batchRet'[j].id =>
             /\ batchRet'[j].category = batchRet[i].category
             /\ batchRet'[j].priority = batchRet[i].priority]_vars

\* the requests to the classifier that have not been answered
InFlight == {c \in DOMAIN calls : calls[c].state = "inflight"}

\* C31: at every moment of a classification pass the number of classifier
\* calls in flight is at most the batch size, and no call of a later batch
\* starts before every call of the earlier batch has finished.
C31_BoundedConcurrency ==
    batch.phase \in {"running", "delay"} =>
        /\ Cardinality(InFlight) <= batch.concurrency
        /\ \A c, d \in DOMAIN calls : calls[c].live => calls[d].live

\* the categories of a launch
LaunchCategories == {"model_launch", "ide_launch"}

\* C32: in the output of a classification pass every item of an official
\* source whose category is a launch has priority breaking, and no item that
\* mentions a known coding tool has priority normal, whether the classifier
\* or the fallback classified it.
C32_BoostsApplied ==
    batch.phase = "done" =>
        \A k \in 1..Len(batchRet) :
            LET a == batchRet[k]
            IN  /\ Catalogue[a.id].sourceTier = "official"
                      /\ a.category \in LaunchCategories
                   => a.priority = "breaking"
                /\ mentionsKnownIDE[a.id] => a.priority # "normal"

\* C33: every call of getNextKey() that returns a key increases the request
\* count of that key by one and sets its lastUsed to the current time, on
\* the round-robin path and on the least-cooldown path alike.
C33_UsageCounted ==
    [][(PoolGetNextKey /\ poolRet'.key # Null)
        => (/\ keyStatus'[poolRet'.key].requestCount =
                 keyStatus[poolRet'.key].requestCount + 1
            /\ keyStatus'[poolRet'.key].lastUsed = now)]_vars

\* C34: in the source statistics of a finished aggregation pass a source
\* whose fetcher met an error is marked as failed and a source whose
\* fetcher met none is marked as successful.
C34_HealthReport ==
    aggPhase = "done" =>
        \A f \in Fetchers : aggRet.sourceStats[f].success = ~results[f].error

\* Math.ceil(itemsToProcess.length / concurrency): the chunks of the pass
NumChunks ==
    (Len(batch.itemsToProcess) + batch.concurrency - 1) \div batch.concurrency

\* the per-item timeout and the delay between chunks, for each chunk
PassBound == NumChunks * (ANALYSIS_TIMEOUT + CHUNK_DELAY)

\* the next chunk is due and would need more requests than are explored
OutOfCalls ==
    /\ batch.phase = "delay"
    /\ now >= batch.deadline
    /\ ~ENABLED NextChunk

\* C35: a classification pass that has begun to process uncached items
\* returns, and returns no later than the number of its chunks times the
\* per-item timeout plus the delay between chunks after its start, whether
\* the classifier answers, never answers or answers every attempt with a
\* rate limit.
C35_PassTerminates ==
    batch.phase = "running"
        ~> \/ batch.phase = "done" /\ now <= StartTime + PassBound
           \/ OutOfCalls

C35_Witness ==
    /\ batch.phase = "done"
    /\ NumChunks = 2
    /\ Cardinality(InFlight) = 2
    /\ now = StartTime + 2 * ANALYSIS_TIMEOUT + CHUNK_DELAY

\* request req is between its call of startAnalysis() and its response
Cycling(req) == req.phase \in {"fetching", "analyzing"}

\* C36: every request that has set the processing flag leaves it cleared
\* when its response is produced, on every path: fresh items, an empty
\* fetch, a fetch timeout, a classification timeout and a thrown error.
C36_FlagCleared ==
    [][/\ (Cycling(route) /\ route'.phase = "idle")
            => ~schedState'.isProcessing
       /\ (Cycling(overlap) /\ overlap'.phase = "idle")
            => ~schedState'.isProcessing]_vars

C36_Witness ==
    /\ route.phase = "idle"
    /\ overlap.phase = "idle"
    /\ routeRet = ErrorResponse("Failed to fetch news")
    /\ overlapRet.kind = "news"
    /\ ~schedState.isProcessing

\* the combined-output cache held a list that was not empty and had not
\* expired when request req began its cycle
CachedAtStart(req) ==
    /\ NEWS_KEY \in DOMAIN memoryCache
    /\ memoryCache[NEWS_KEY].data # <<>>
    /\ memoryCache[NEWS_KEY].timestamp <= req.started
    /\ ~GetExpired(memoryCache[NEWS_KEY], req.started)

\* C37: a cycle that began with a combined-output cache that was not empty
\* and not expired answers with a list that is not empty, and does not
\* store an empty list in the combined-output cache.
C37_NeverWorse ==
    [][(Cycling(route) /\ CachedAtStart(route) /\ route'.phase = "idle")
        => (/\ routeRet'.items # <<>>
            /\ NEWS_KEY \in DOMAIN memoryCache'
                  => memoryCache'[NEWS_KEY].data # <<>>)]_vars

\* the keys of map m that get() and has() serve at time t
ServedByGet(m, t) == {k \in DOMAIN m : ~GetExpired(m[k], t)}

\* C38: at every instant get, has, getAll, cleanup, getStats and load
\* classify each entry of the map the same way: the entries get() serves
\* are the ones getAll() returns, cleanup() keeps, getStats() counts as
\* valid and load() would accept, also when now is the expiry timestamp.
C38_ExpiryAgreement ==
    LET served == ServedByGet(memoryCache, now)
    IN  /\ DOMAIN getAll(memoryCache, now) = served
        /\ DOMAIN cleanup(memoryCache, now) = served
        /\ getStats(memoryCache, now).validEntries = Cardinality(served)
        /\ DOMAIN LoadedMap(EmptyMap, memoryCache, FALSE, now) = served

\* the items STEP 3 removes although they passed the noise filter and lie
\* inside the lookback window
RemovedByDedup ==
    {id \in RawItemSet : /\ passesNoiseFilter[id]
                         /\ ~OutsideWindow(id, cutoffDate)
                         /\ id \notin OutputSet}

\* a and b have the same normalized link, or the same normalized title of
\* more than MIN_TITLE_KEY characters
SameStory(a, b) ==
    \/ normalizedUrl[a] = normalizedUrl[b]
    \/ /\ Len(normalizedTitle[a]) > MIN_TITLE_KEY
       /\ normalizedTitle[a] = normalizedTitle[b]

\* C39: every item inside the lookback window that the deduplication step
\* removes has the normalized link, or the normalized title of more than
\* 10 characters, of an item that is kept.
C39_RemovedHasKeptTwin ==
    aggPhase = "done" =>
        \A id \in RemovedByDedup : \E kept \in OutputSet : SameStory(id, kept)

\* in state st the processing flag is set exactly when the start time of
\* the processing is present
FlagHasStartTime(st) == st.isProcessing <=> (st.processStartTime # NullTime)

\* C40: in every reachable state of the scheduler the processing flag is
\* set if and only if processStartTime is not null, in memory and in the
\* state file.
C40_FlagIffStartTime ==
    /\ FlagHasStartTime(schedState)
    /\ stateFile.exists => FlagHasStartTime(stateFile.state)

C40_Witness ==
    /\ stateFile.exists
    /\ stateFile.state.isProcessing
    /\ stateFile.state.processStartTime # NullTime
    /\ ~schedState.isProcessing
    /\ schedState.processStartTime = NullTime
    /\ schedRet.op = "getNextAction"

====
